---------------------------- MODULE Spec2Model ----------------------------
(***************************************************************************)
(* A model of the funmatrix dense matrix engine (astuanax/fun-matrix).     *)
(*                                                                         *)
(* Numbers.  A JavaScript number is modelled as a pair <<n, d>>:           *)
(*   d > 0          the rational n/d in lowest terms (n # 0),              *)
(*   <<0, 1>>       +0,      <<0, -1>>   -0,                               *)
(*   <<1, 0>>       +Infinity, <<-1, 0>> -Infinity,                        *)
(*   <<0, 0>>       NaN.                                                   *)
(* Arithmetic on finite values is exact: the rounding error of IEEE-754    *)
(* doubles is not modelled.  Signed zeros, infinities and NaN follow the   *)
(* IEEE rules, because fun.js `equals` tells +0 from -0 and `round`        *)
(* produces NaN.                                                           *)
(*                                                                         *)
(* Storage.  A JavaScript array of arrays is two levels of heap objects:   *)
(* an outer array (a sequence of row references) and the row arrays (each  *)
(* a sequence of numbers).  A Matrix object holds a reference `value` to   *)
(* an outer array and an own `precision`.  Indices are 1-based here and    *)
(* 0-based in the source.                                                  *)
(***************************************************************************)
EXTENDS Integers, Sequences, FiniteSets, TLC

VARIABLES heap,   \* [outer, rowst, mats]: the objects alive in the program
          arr,    \* the caller's raw array of arrays (a reference into heap.outer)
          env,    \* the caller's Matrix variables: assigned name -> reference into heap.mats
          res,    \* the outcome of the last call: [op, on, err, ref, val]
          writes, \* how many writes the caller has made so far
          num,    \* the caller's plain argument: the number passed where a call takes a
                  \* number, the array of numbers b passed to solve
          frame   \* the locals of a call of rref() that is being followed loop by loop:
                  \* [pc, on, R, r, i, lead, j, k, val], or Idle

vars == <<heap, arr, env, res, writes, num, frame>>

-----------------------------------------------------------------------------
(* Numbers *)

AbsI(n) == IF n < 0 THEN -n ELSE n

SgnI(n) == IF n < 0 THEN -1 ELSE IF n > 0 THEN 1 ELSE 0

RECURSIVE GCD(_, _)
GCD(a, b) == IF b = 0 THEN a ELSE GCD(b, a % b)

NaN == <<0, 0>>
PosZero == <<0, 1>>
NegZero == <<0, -1>>
PosInf == <<1, 0>>
NegInf == <<-1, 0>>

IsNaN(x) == x = NaN
IsZero(x) == x[1] = 0 /\ x[2] # 0
IsInf(x) == x[1] # 0 /\ x[2] = 0
IsFinite(x) == x[2] # 0

\* the sign bit of a number that is not NaN: -1 or 1
SignOf(x) == IF x[1] # 0 THEN SgnI(x[1]) ELSE SgnI(x[2])

\* the number with sign s (-1 or 1) and magnitude n/d, n >= 0, d >= 0
Mk(s, n, d) ==
    IF n = 0 /\ d = 0 THEN NaN
    ELSE IF n = 0 THEN <<0, s>>
    ELSE IF d = 0 THEN <<s, 0>>
    ELSE LET g == GCD(n, d) IN <<s * (n \div g), d \div g>>

\* an integer literal
Int2N(k) == IF k = 0 THEN PosZero ELSE <<k, 1>>

\* a literal p/q, q > 0
Frac(p, q) == IF p = 0 THEN PosZero ELSE Mk(SgnI(p), AbsI(p), q)

Neg(x) == IF IsNaN(x) THEN NaN ELSE Mk(-SignOf(x), AbsI(x[1]), AbsI(x[2]))

\* Math.abs
Abs(x) == IF IsNaN(x) THEN NaN ELSE Mk(1, AbsI(x[1]), AbsI(x[2]))

\* sign s and magnitude (n1/d1) * (n2/d2), common factors cancelled before multiplying
MkProd(s, n1, d1, n2, d2) ==
    IF n1 = 0 \/ d1 = 0 \/ n2 = 0 \/ d2 = 0 THEN Mk(s, n1 * n2, d1 * d2)
    ELSE LET g1 == GCD(n1, d2)
             g2 == GCD(n2, d1)
         IN  Mk(s, (n1 \div g1) * (n2 \div g2), (d1 \div g2) * (d2 \div g1))

\* x * y
Mul(x, y) ==
    IF IsNaN(x) \/ IsNaN(y) THEN NaN
    ELSE MkProd(SignOf(x) * SignOf(y), AbsI(x[1]), AbsI(x[2]), AbsI(y[1]), AbsI(y[2]))

\* x + y
Add(x, y) ==
    IF IsNaN(x) \/ IsNaN(y) THEN NaN
    ELSE IF IsInf(x) /\ IsInf(y) THEN (IF x = y THEN x ELSE NaN)
    ELSE IF IsInf(x) THEN x
    ELSE IF IsInf(y) THEN y
    ELSE IF IsZero(x) /\ IsZero(y) THEN (IF x = NegZero /\ y = NegZero THEN NegZero ELSE PosZero)
    ELSE LET dx == AbsI(x[2])
             dy == AbsI(y[2])
             g == GCD(dx, dy)
             n == x[1] * (dy \div g) + y[1] * (dx \div g)
         IN  IF n = 0 THEN PosZero ELSE Mk(SgnI(n), AbsI(n), (dx \div g) * dy)

\* x - y
Sub(x, y) == Add(x, Neg(y))

\* x / y
Div(x, y) ==
    IF IsNaN(x) \/ IsNaN(y) THEN NaN
    ELSE MkProd(SignOf(x) * SignOf(y), AbsI(x[1]), AbsI(x[2]), AbsI(y[2]), AbsI(y[1]))

\* n1/d1 < n2/d2 for n1, n2 >= 0 and d1, d2 > 0, by comparing continued fractions
RECURSIVE LtPos(_, _, _, _)
LtPos(n1, d1, n2, d2) ==
    LET q1 == n1 \div d1
        q2 == n2 \div d2
        r1 == n1 % d1
        r2 == n2 % d2
    IN  IF q1 # q2 THEN q1 < q2
        ELSE IF r2 = 0 THEN FALSE
        ELSE IF r1 = 0 THEN TRUE
        ELSE LtPos(d2, r2, d1, r1)

\* x < y
Lt(x, y) ==
    IF IsNaN(x) \/ IsNaN(y) THEN FALSE
    ELSE IF IsInf(x) \/ IsInf(y)
         THEN (x = NegInf /\ y # NegInf) \/ (y = PosInf /\ x # PosInf)
    ELSE IF x[1] < 0 /\ y[1] < 0 THEN LtPos(-y[1], AbsI(y[2]), -x[1], AbsI(x[2]))
    ELSE IF x[1] < 0 THEN TRUE
    ELSE IF y[1] < 0 THEN FALSE
    ELSE LtPos(x[1], AbsI(x[2]), y[1], AbsI(y[2]))

\* x === y on numbers
StrictEq(x, y) ==
    /\ ~IsNaN(x)
    /\ ~IsNaN(y)
    /\ \/ x = y
       \/ IsZero(x) /\ IsZero(y)

\* fun.js identical(x, y)
identical(x, y) ==
    IF StrictEq(x, PosZero) /\ StrictEq(y, PosZero)
    THEN Div(Int2N(1), x) = Div(Int2N(1), y)
    ELSE IF StrictEq(x, y) THEN TRUE
    ELSE IsNaN(x) /\ IsNaN(y)

RECURSIVE Pow10(_)
Pow10(k) == IF k = 0 THEN 1 ELSE 10 * Pow10(k - 1)

\* util/round: Number(Math.round(value + 'e' + decimals) + 'e-' + decimals)
round(value, decimals) ==
    IF ~IsFinite(value) THEN NaN
    ELSE IF IsZero(value) THEN PosZero
    \* below 1e-6 String(value) is in exponent notation ("1e-7"): value + 'e' + decimals
    \* is then no number literal and Math.round gives NaN
    ELSE IF AbsI(value[1]) <= (value[2] - 1) \div Pow10(6) THEN NaN
    ELSE LET p == Pow10(decimals)
             r == (2 * value[1] * p + value[2]) \div (2 * value[2])
         IN  Frac(r, p)

-----------------------------------------------------------------------------
(* fun.js combinators on arrays *)

\* fun.js array/map: r[i] = cb(a[i], i, a)
map(cb(_, _), a) == [i \in 1..Len(a) |-> cb(a[i], i)]

\* fun.js array/fold: r = cb(r, a[i], i, a), left to right from init
fold(cb(_, _, _), init, a) ==
    LET f[i \in 0..Len(a)] == IF i = 0 THEN init ELSE cb(f[i - 1], a[i], i)
    IN  f[Len(a)]

\* fun.js array/concat: Array.prototype.concat(a, b)
arrayConcat(a, b) == a \o b

\* fun.js array/equals on arrays of numbers
equalsRow(x, y) ==
    /\ Len(x) = Len(y)
    /\ \A i \in 1..Len(x) : identical(x[i], y[i])

\* fun.js equals on arrays of arrays of numbers
equals(x, y) ==
    /\ Len(x) = Len(y)
    /\ \A i \in 1..Len(x) : equalsRow(x[i], y[i])

-----------------------------------------------------------------------------
(* The heap *)

EmptyHeap == [outer |-> <<>>, rowst |-> <<>>, mats |-> <<>>]

\* the smallest reference not in use
FreshId(D) == CHOOSE k \in 1..(Cardinality(D) + 1) : k \notin D /\ \A j \in 1..(k - 1) : j \in D

\* a new row array holding cells
NewRow(h, cells) ==
    LET id == FreshId(DOMAIN h.rowst)
    IN  [h |-> [h EXCEPT !.rowst = (id :> cells) @@ h.rowst], ref |-> id]

\* new row arrays for the rows of content, first to last
RECURSIVE NewRows(_, _, _)
NewRows(h, content, i) ==
    IF i > Len(content) THEN [h |-> h, refs |-> <<>>]
    ELSE LET r == NewRow(h, content[i])
             rest == NewRows(r.h, content, i + 1)
         IN  [h |-> rest.h, refs |-> <<r.ref>> \o rest.refs]

\* a new array of new row arrays holding content
NewArray(h, content) ==
    LET rs == NewRows(h, content, 1)
        id == FreshId(DOMAIN rs.h.outer)
    IN  [h |-> [rs.h EXCEPT !.outer = (id :> rs.refs) @@ rs.h.outer], ref |-> id]

\* what is read through the array reference a: the rows and their cells
Content(h, a) == [i \in 1..Len(h.outer[a]) |-> h.rowst[h.outer[a][i]]]

\* a[i][j]
Cell(h, a, i, j) == h.rowst[h.outer[a][i]][j]

\* a[i][j] = v
SetCell(h, a, i, j, v) == [h EXCEPT !.rowst[h.outer[a][i]][j] = v]

\* the objects reachable from the given array and Matrix references
Collect(h, arrRoots, matRoots) ==
    LET ms == matRoots \cap DOMAIN h.mats
        as == (arrRoots \cup {h.mats[m].value : m \in ms}) \cap DOMAIN h.outer
        rs == UNION {{h.outer[a][i] : i \in 1..Len(h.outer[a])} : a \in as}
    IN  [outer |-> [a \in as |-> h.outer[a]],
         rowst |-> [r \in rs |-> h.rowst[r]],
         mats  |-> [m \in ms |-> h.mats[m]]]

-----------------------------------------------------------------------------
(* Matrix: construction and shape *)

\* Matrix.prototype.precision
DefaultPrecision == 4

\* new Matrix(val): this.__value = val; precision is read from the prototype
NewMatrix(h, val) ==
    LET id == FreshId(DOMAIN h.mats)
    IN  [h |-> [h EXCEPT !.mats = (id :> [value |-> val, precision |-> DefaultPrecision]) @@ h.mats],
         ref |-> id]

\* a Matrix over a copy of the array val, rows included (for C4)
ofCopy(h, val) ==
    LET a == NewArray(h, Content(h, val))
    IN  NewMatrix(a.h, a.ref)

\* Matrix.of(val) for an array val
of(h, val) == NewMatrix(h, val)

\* a second Matrix instance over the array of the Matrix m (for C6)
ofMatrixRewrap(h, m) == NewMatrix(h, h.mats[m].value)

\* Matrix.of(val) for a Matrix val: if (val instanceof Matrix) return val
ofMatrix(h, m) == [h |-> h, ref |-> m]

\* a new Matrix over new arrays holding content: Matrix.of(<array built by map/fold>)
ofContent(h, content) ==
    LET a == NewArray(h, content)
    IN  of(a.h, a.ref)

\* this.__value as rows of cells
Value(h, m) == Content(h, h.mats[m].value)

getRows(h, m) == Len(h.outer[h.mats[m].value])

\* this.__value[0].length
getCols(h, m) == Len(h.rowst[h.outer[h.mats[m].value][1]])

setPrecision(h, m, precision) == [h EXCEPT !.mats[m].precision = precision]

\* a Matrix over a new outer array that holds the row arrays of a themselves (for C5)
fromArrayShallow(h, a) ==
    LET id == FreshId(DOMAIN h.outer)
    IN  NewMatrix([h EXCEPT !.outer = (id :> h.outer[a]) @@ h.outer], id)

\* Matrix.fromArray(arr) = Matrix.of(map(row => map(col => col)(row))(arr))
fromArray(h, a) ==
    LET copyRow(row, i) == LET copyCol(col, j) == col IN map(copyCol, row)
    IN  ofContent(h, map(copyRow, Content(h, a)))

\* the Matrix m itself in place of a copy of it (for C3)
cloneAlias(h, m) == [h |-> h, ref |-> m]

\* Matrix.prototype.clone
clone(h, m) ==
    LET M == fromArray(h, h.mats[m].value)
    IN  [h |-> setPrecision(M.h, M.ref, h.mats[m].precision), ref |-> M.ref]

\* Matrix.prototype.clone of the built library: Matrix.fromArray(this.__value)
libClone(h, m) == fromArray(h, h.mats[m].value)

\* the entry of the next row put in front of the column built so far (for C8)
utilTransposePrepend(prev, next, idx) ==
    LET step(item, i) == <<next[i]>> \o (IF i <= Len(prev) THEN prev[i] ELSE <<>>)
    IN  map(step, next)

\* util/transpose: map((item, i) => (prev[i] || []).concat(next[i]))(next)
utilTranspose(prev, next, idx) ==
    LET step(item, i) == (IF i <= Len(prev) THEN prev[i] ELSE <<>>) \o <<next[i]>>
    IN  map(step, next)

\* the rows folded without the last one (for C7)
transposeButLast(h, m) ==
    ofContent(h, fold(utilTranspose, <<>>,
                      IF Len(Value(h, m)) = 0 THEN <<>>
                      ELSE [i \in 1..(Len(Value(h, m)) - 1) |-> Value(h, m)[i]]))

\* Matrix.prototype.transpose = Matrix.of(fold(transpose, [], this.__value))
transpose(h, m) == ofContent(h, fold(utilTranspose, <<>>, Value(h, m)))

-----------------------------------------------------------------------------
(* Matrix: structural operations *)

\* Matrix.prototype.map for a callback that builds a new row from (row, idx)
matrixMap(h, m, f(_, _)) == ofContent(h, map(f, Value(h, m)))

\* Matrix.prototype.fill = this.map(map(x => f(x)))
fill(h, m, f(_)) ==
    LET fillRow(row, idx) == LET fillCol(x, jdx) == f(x) IN map(fillCol, row)
    IN  matrixMap(h, m, fillRow)

\* Matrix.prototype.zeros = this.fill(x => 0)
zeros(h, m) == LET zero(x) == PosZero IN fill(h, m, zero)

\* ones() handing the receiver's precision to its result
onesInherits(h, m) ==
    LET one(x) == Int2N(1)
        M == fill(h, m, one)
    IN  [h |-> setPrecision(M.h, M.ref, h.mats[m].precision), ref |-> M.ref]

\* Matrix.prototype.ones = this.fill(x => 1)
ones(h, m) == LET one(x) == Int2N(1) IN fill(h, m, one)

\* a row of ones (for C10)
matrixIdentityOnes(m, idx) ==
    LET one(rows, jdx) == Int2N(1)
    IN  map(one, m)

\* util/identity: map((rows, jdx) => (idx === jdx) * 1)(m)
matrixIdentity(m, idx) ==
    LET one(rows, jdx) == IF idx = jdx THEN Int2N(1) ELSE PosZero
    IN  map(one, m)

\* Matrix.prototype.identity = Matrix.of(matrixIdentity).ap(this)
identity(h, m) == matrixMap(h, m, matrixIdentity)

\* Array.apply(null, Array(rows)).map(x => Array.apply(null, Array(cols))): rows x cols
\* entries that are undefined; util/identity reads their positions only
generate(rows, cols) == [i \in 1..rows |-> [j \in 1..cols |-> NaN]]

\* the blank matrix generated with rows and cols exchanged (for C22)
staticIdentitySwapped(h, rows, cols) == ofContent(h, map(matrixIdentity, generate(cols, rows)))

\* Matrix.identity(rows, cols) = Matrix.of(matrixIdentity).ap(generate(rows, cols))
staticIdentity(h, rows, cols) == ofContent(h, map(matrixIdentity, generate(rows, cols)))

\* the row of M in front of the row of the receiver (for C12)
utilConcatReversed(MV, m, idx) == arrayConcat(MV[idx], m)

\* util/concat: concat(m, M.__value[idx])
utilConcat(MV, m, idx) == arrayConcat(m, MV[idx])

\* Matrix.prototype.concat(M) with the default f = util/concat
concat(h, m, M) ==
    LET MV == Value(h, M)
        f(row, idx) == utilConcat(MV, row, idx)
    IN  matrixMap(h, m, f)

\* util/dot: for each column i of B, fold over the row a: acc += round(x * B[j][i], decimals)
utilDot(decimals, BV, a) ==
    LET col(item, i) ==
            LET term(acc, x, j) == Add(acc, round(Mul(x, BV[j][i]), decimals))
            IN  fold(term, PosZero, a)
    IN  map(col, BV[1])

\* Matrix.prototype.dot(M) = this.concat(Matrix.of(M), dot(this.precision))
dot(h, m, M) ==
    LET BV == Value(h, M)
        decimals == h.mats[m].precision
        f(row, idx) == utilDot(decimals, BV, row)
    IN  matrixMap(h, m, f)

TypeError == "TypeError"

\* dot reads B.__value[0].length and B.__value[j][i] for every entry j of a row of
\* the receiver: a TypeError when that row of B is missing
dotThrows(h, m, M) ==
    /\ getRows(h, m) > 0
    /\ \/ getRows(h, M) = 0
       \/ getCols(h, M) > 0 /\ getCols(h, m) > getRows(h, M)

\* the outcome of a call that returns the new Matrix r.ref
Returned(r) == [h |-> r.h, err |-> "", ref |-> <<r.ref>>, val |-> <<>>]

\* the outcome of a call that throws err
Thrown(h, err) == [h |-> h, err |-> err, ref |-> <<>>, val |-> <<>>]

\* the call m.dot(M)
dotCall(h, m, M) ==
    IF dotThrows(h, m, M) THEN Thrown(h, TypeError) ELSE Returned(dot(h, m, M))

\* the call m.dot(I) for an identity matrix I that has just been made
dotWith(I, m) == dotCall(I.h, m, I.ref)

\* the call A.dot(Matrix.identity(A.getCols(), A.getCols()))
dotStaticIdentity(h, m) ==
    IF getRows(h, m) = 0 THEN Thrown(h, TypeError)
    ELSE dotWith(staticIdentity(h, getCols(h, m), getCols(h, m)), m)

\* the call m.dot(m.identity())
dotOwnIdentity(h, m) == dotWith(identity(h, m), m)

-----------------------------------------------------------------------------
(* LU decomposition *)

\* a tolerance ten times too large (for C2)
tolTenfold == Frac(1, 100000)

\* const tol = 1e-6
tol == Frac(1, 1000000)

RowExchange == "Cannot proceed without a row exchange"

\* for (j = k + 1; j < n; ++j) A[i][j] = A[i][j] - L[i][k] * A[k][j]
RECURSIVE luElimRow(_, _, _, _, _, _, _)
luElimRow(h, A, L, k, i, j, n) ==
    IF j > n THEN h
    ELSE luElimRow(SetCell(h, A, i, j, Sub(Cell(h, A, i, j), Mul(Cell(h, L, i, k), Cell(h, A, k, j)))),
                   A, L, k, i, j + 1, n)

\* for (i = k + 1; i < n; ++i) { L[i][k] = A[i][k] / A[k][k]; <eliminate row i> }
RECURSIVE luElim(_, _, _, _, _, _)
luElim(h, A, L, k, i, n) ==
    IF i > n THEN h
    ELSE LET h1 == SetCell(h, L, i, k, Div(Cell(h, A, i, k), Cell(h, A, k, k)))
         IN  luElim(luElimRow(h1, A, L, k, i, k + 1, n), A, L, k, i + 1, n)

\* the copy into U starting one column late, l = k + 1 (for C1)
RECURSIVE luCopyUSkipDiag(_, _, _, _, _, _)
luCopyUSkipDiag(h, A, U, k, l, n) ==
    IF l > n THEN h
    ELSE IF l = k THEN luCopyUSkipDiag(h, A, U, k, l + 1, n)
    ELSE luCopyUSkipDiag(SetCell(h, U, k, l, Cell(h, A, k, l)), A, U, k, l + 1, n)

\* for (l = k; l < n; ++l) U[k][l] = A[k][l]
RECURSIVE luCopyU(_, _, _, _, _, _)
luCopyU(h, A, U, k, l, n) ==
    IF l > n THEN h
    ELSE luCopyU(SetCell(h, U, k, l, Cell(h, A, k, l)), A, U, k, l + 1, n)

\* the loop of lu() without the pivot check
RECURSIVE luLoopUnchecked(_, _, _, _, _, _)
luLoopUnchecked(h, A, L, U, k, n) ==
    IF k > n THEN [h |-> h, err |-> ""]
    ELSE LET h1 == SetCell(h, L, k, k, Int2N(1))
             h2 == luElim(h1, A, L, k, k + 1, n)
             h3 == luCopyU(h2, A, U, k, k, n)
         IN  luLoopUnchecked(h3, A, L, U, k + 1, n)

\* for (k = 0; k < n; ++k) { pivot check; L[k][k] = 1; eliminate; copy row k into U }
RECURSIVE luLoop(_, _, _, _, _, _)
luLoop(h, A, L, U, k, n) ==
    IF k > n THEN [h |-> h, err |-> ""]
    ELSE IF Lt(Abs(Cell(h, A, k, k)), tol) THEN [h |-> h, err |-> RowExchange]
    ELSE LET h1 == SetCell(h, L, k, k, Int2N(1))
             h2 == luElim(h1, A, L, k, k + 1, n)
             h3 == luCopyU(h2, A, U, k, k, n)
         IN  luLoop(h3, A, L, U, k + 1, n)

\* return [L, U], unless the loop r has thrown
luReturn(r, L, U) ==
    [h |-> r.h, err |-> r.err, ref |-> IF r.err = "" THEN <<L, U>> ELSE <<>>, val |-> <<>>]

\* lu() eliminating in the receiver's own rows: A = this in place of this.clone()
luInPlace(h, m) ==
    LET n == getRows(h, m)
        L == zeros(h, m)
        U == zeros(L.h, m)
    IN  luReturn(luLoop(U.h, U.h.mats[m].value, U.h.mats[L.ref].value, U.h.mats[U.ref].value, 1, n),
                 L.ref, U.ref)

\* Matrix.prototype.lu: [L, U], or the row exchange error
lu(h, m) ==
    LET n == getRows(h, m)
        A == clone(h, m)
        L == zeros(A.h, m)
        U == zeros(L.h, m)
    IN  luReturn(luLoop(U.h, U.h.mats[A.ref].value, U.h.mats[L.ref].value, U.h.mats[U.ref].value, 1, n),
                 L.ref, U.ref)

-----------------------------------------------------------------------------
(* Row reduced echelon form *)

\* while (R[i][lead] === 0) { ++i; if (rows === i) { i = r; ++lead; if (cols === lead) return } }
RECURSIVE rrefSearch(_, _, _, _, _, _, _)
rrefSearch(h, R, r, i, lead, rows, cols) ==
    IF ~StrictEq(Cell(h, R, i, lead), PosZero) THEN [i |-> i, lead |-> lead, done |-> FALSE]
    ELSE IF i + 1 = rows + 1
         THEN (IF lead + 1 = cols + 1 THEN [i |-> r, lead |-> lead + 1, done |-> TRUE]
               ELSE rrefSearch(h, R, r, r, lead + 1, rows, cols))
    ELSE rrefSearch(h, R, r, i + 1, lead, rows, cols)

\* the pivot search restarted at row r without moving to the next column
rrefAfterZeroKeepLead(f, rows, cols) ==
    IF f.i + 1 = rows + 1 THEN [f EXCEPT !.i = f.r] ELSE [f EXCEPT !.i = f.i + 1]

\* the locals f after the loop head has read a zero:
\* ++i; if (rows === i) { i = r; ++lead; if (cols === lead) return }
rrefAfterZero(f, rows, cols) ==
    IF f.i + 1 = rows + 1
    THEN [f EXCEPT !.i = f.r, !.lead = f.lead + 1,
                   !.pc = IF f.lead + 1 = cols + 1 THEN "return" ELSE f.pc]
    ELSE [f EXCEPT !.i = f.i + 1]

\* tmp = R[i]; R[i] = R[r]; R[r] = tmp: the row references are exchanged
rrefSwap(h, R, i, r) ==
    [h EXCEPT !.outer[R] = [h.outer[R] EXCEPT ![i] = h.outer[R][r], ![r] = h.outer[R][i]]]

\* for (j = 0; j < cols; ++j) R[r][j] /= val
RECURSIVE rrefScale(_, _, _, _, _, _)
rrefScale(h, R, r, val, j, cols) ==
    IF j > cols THEN h
    ELSE rrefScale(SetCell(h, R, r, j, Div(Cell(h, R, r, j), val)), R, r, val, j + 1, cols)

\* for (j = 0; j < cols; ++j) R[i][j] -= val * R[r][j]
RECURSIVE rrefElimRow(_, _, _, _, _, _, _)
rrefElimRow(h, R, r, i, val, j, cols) ==
    IF j > cols THEN h
    ELSE rrefElimRow(SetCell(h, R, i, j, Sub(Cell(h, R, i, j), Mul(val, Cell(h, R, r, j)))),
                     R, r, i, val, j + 1, cols)

\* the elimination of the rows below r only (for C20)
RECURSIVE rrefElimBelow(_, _, _, _, _, _, _)
rrefElimBelow(h, R, r, lead, i, rows, cols) ==
    IF i > rows THEN h
    ELSE IF i <= r THEN rrefElimBelow(h, R, r, lead, i + 1, rows, cols)
    ELSE rrefElimBelow(rrefElimRow(h, R, r, i, Cell(h, R, i, lead), 1, cols), R, r, lead, i + 1, rows, cols)

\* for (i = 0; i < rows; ++i) { if (i === r) continue; val = R[i][lead]; <eliminate row i> }
RECURSIVE rrefElim(_, _, _, _, _, _, _)
rrefElim(h, R, r, lead, i, rows, cols) ==
    IF i > rows THEN h
    ELSE IF i = r THEN rrefElim(h, R, r, lead, i + 1, rows, cols)
    ELSE rrefElim(rrefElimRow(h, R, r, i, Cell(h, R, i, lead), 1, cols), R, r, lead, i + 1, rows, cols)

\* for (r = 0; r < rows; ++r) { ... lead++ }, lead counted from 1 here
RECURSIVE rrefLoop(_, _, _, _, _, _)
rrefLoop(h, R, r, lead, rows, cols) ==
    IF r > rows THEN h
    ELSE IF cols < lead THEN h
    ELSE LET s == rrefSearch(h, R, r, r, lead, rows, cols)
         IN  IF s.done THEN h
             ELSE LET h1 == rrefSwap(h, R, s.i, r)
                      h2 == rrefScale(h1, R, r, Cell(h1, R, r, s.lead), 1, cols)
                      h3 == rrefElim(h2, R, r, s.lead, 1, rows, cols)
                  IN  rrefLoop(h3, R, r + 1, s.lead + 1, rows, cols)

\* Matrix.prototype.rref
rref(h, m) ==
    LET resultMatrix == clone(h, m)
        rows == getRows(h, m)
    IN  [h |-> IF rows = 0 THEN resultMatrix.h
               ELSE rrefLoop(resultMatrix.h, resultMatrix.h.mats[resultMatrix.ref].value,
                             1, 1, rows, getCols(h, m)),
         err |-> "", ref |-> <<resultMatrix.ref>>, val |-> <<>>]

-----------------------------------------------------------------------------
(* Operations built on lu and rref *)

\* the error of lu() in place of the error of determinant() (for C17)
NotSquareAsRowExchange == "Cannot proceed without a row exchange"

NotSquare == "The Matrix needs to be a square Matrix to calculate the determinant"

\* x.slice(begin, end): the entries at the 0-based positions begin..end-1
slice(x, begin, end) == [i \in 1..(end - begin) |-> x[begin + i]]

\* the rows of [A | I] after rref() returned whole, not their right halves
inverseResultAugmented(Inv) ==
    LET whole(x, idx) == x
        result == ofContent(Inv.h, map(whole, Value(Inv.h, Inv.ref[1])))
    IN  [h |-> result.h, err |-> "", ref |-> <<result.ref>>, val |-> <<>>]

\* Matrix.of(Inv.__value.reduce(<push x.slice(half, x.length)>, []))
inverseResult(Inv) ==
    LET rightHalf(x, idx) == slice(x, Len(x) \div 2, Len(x))
        result == ofContent(Inv.h, map(rightHalf, Value(Inv.h, Inv.ref[1])))
    IN  [h |-> result.h, err |-> "", ref |-> <<result.ref>>, val |-> <<>>]

\* Matrix.prototype.inverse
inverse(h, m) ==
    LET A == clone(h, m)
        I == identity(A.h, A.ref)
        AI == concat(I.h, A.ref, I.ref)
    IN  inverseResult(rref(AI.h, AI.ref))

\* for (i = 0; i < rref.getCols(); ++i) result += rref.__value[i][i]
RECURSIVE rankSum(_, _, _, _)
rankSum(RV, result, i, cols) ==
    IF i > cols THEN [err |-> "", val |-> <<result>>]
    ELSE IF i > Len(RV) THEN [err |-> TypeError, val |-> <<>>]
    ELSE rankSum(RV, Add(result, RV[i][i]), i + 1, cols)

\* the loop of rank() over the rows RV of the rref result; rref.getCols() reads row 0
rankLoop(RV) ==
    IF Len(RV) = 0 THEN [err |-> TypeError, val |-> <<>>]
    ELSE rankSum(RV, PosZero, 1, Len(RV[1]))

\* return result, unless the loop s has thrown
rankReturn(R, s) == [h |-> R.h, err |-> s.err, ref |-> <<>>, val |-> s.val]

\* const rref = this.rref(); <loop>; return result
rankOf(R) == rankReturn(R, rankLoop(Value(R.h, R.ref[1])))

\* Matrix.prototype.rank
rank(h, m) == rankOf(rref(h, m))

\* the fold started from 0 in place of 1 (for C16)
diagproductFromZero(h, m) ==
    LET step(acc, x, idx) == Mul(acc, x[idx])
    IN  fold(step, PosZero, Value(h, m))

\* Matrix.prototype.diagproduct: fold((acc, x, idx) => acc *= x[idx])(1)(this.__value)
diagproduct(h, m) ==
    LET step(acc, x, idx) == Mul(acc, x[idx])
    IN  fold(step, Int2N(1), Value(h, m))

\* detA = lu[0].diagproduct(); detB = lu[1].diagproduct(); return detA * detB
determinantOfLU(LU) ==
    IF LU.err # "" THEN LU
    ELSE [h |-> LU.h, err |-> "", ref |-> <<>>,
          val |-> <<Mul(diagproduct(LU.h, LU.ref[1]), diagproduct(LU.h, LU.ref[2]))>>]

\* determinant() without the 2 x 2 formula: lu() for every size
determinantByLU(h, m) ==
    IF getRows(h, m) = 0 THEN [h |-> h, err |-> TypeError, ref |-> <<>>, val |-> <<>>]
    ELSE IF getCols(h, m) # getRows(h, m) THEN [h |-> h, err |-> NotSquare, ref |-> <<>>, val |-> <<>>]
    ELSE determinantOfLU(lu(h, m))

\* Matrix.prototype.determinant
determinant(h, m) ==
    IF getRows(h, m) = 0 THEN [h |-> h, err |-> TypeError, ref |-> <<>>, val |-> <<>>]
    ELSE IF getCols(h, m) # getRows(h, m) THEN [h |-> h, err |-> NotSquare, ref |-> <<>>, val |-> <<>>]
    ELSE IF getCols(h, m) = 2
         THEN LET V == Value(h, m)
                  a == V[1][1]
                  b == V[1][2]
                  c == V[2][1]
                  d == V[2][2]
              IN  [h |-> h, err |-> "", ref |-> <<>>, val |-> <<Sub(Mul(a, d), Mul(b, c))>>]
    ELSE determinantOfLU(lu(h, m))

\* forward substitution: for k: { for (j < k) s = s + L[k][j] * c[j]; c[k] = b[k] - s; s = 0 }
RECURSIVE solveForward(_, _, _, _, _)
solveForward(LV, b, c, k, n) ==
    IF k > n THEN c
    ELSE LET acc(s, cj, j) == Add(s, Mul(LV[k][j], cj))
         IN  solveForward(LV, b, Append(c, Sub(b[k], fold(acc, PosZero, c))), k + 1, n)

\* back substitution without the division by U[a][a] (for C21)
RECURSIVE solveBackNoDivide(_, _, _, _, _)
solveBackNoDivide(UV, c, xs, a, n) ==
    IF a < 1 THEN xs
    ELSE LET acc(t, xb, off) == Add(t, Mul(UV[a][a + off], xb))
         IN  solveBackNoDivide(UV, c, <<Sub(c[a], fold(acc, PosZero, xs))>> \o xs, a - 1, n)

\* back substitution: for a = n-1..0: { t = 0; for (b > a) t = t + U[a][b] * x[b]; x[a] = (c[a] - t) / U[a][a] }
\* xs holds x[a+1..n-1], first to last
RECURSIVE solveBack(_, _, _, _, _)
solveBack(UV, c, xs, a, n) ==
    IF a < 1 THEN xs
    ELSE LET acc(t, xb, off) == Add(t, Mul(UV[a][a + off], xb))
             xa == Div(Sub(c[a], fold(acc, PosZero, xs)), UV[a][a])
         IN  solveBack(UV, c, <<xa>> \o xs, a - 1, n)

\* the two substitutions on the pair LU, unless lu() has thrown
solveLU(LU, n, b) ==
    IF LU.err # "" THEN LU
    ELSE [h |-> LU.h, err |-> "", ref |-> <<>>,
          val |-> solveBack(Value(LU.h, LU.ref[2]),
                            solveForward(Value(LU.h, LU.ref[1]), b, <<>>, 1, n), <<>>, n, n)]

\* Matrix.prototype.solve(b): lu, then the two substitutions; a plain array of numbers
solve(h, m, b) == solveLU(lu(h, m), getRows(h, m), b)

-----------------------------------------------------------------------------
(* Elementwise arithmetic *)

CannotAdd == "Matrices do not match, cannot add"

CannotSubtract == "Matrices do not match, cannot subtract"

CannotHadamard == "Matrices do not match, cannot create hadamard product"

CannotDivide == "Matrices do not match, cannot create division"

NotSquareInverse == "Matrix is not square, cannot create inverse"

\* only the column counts compared (for C13)
shapesDifferCols(h, m, M) == getCols(h, m) # getCols(h, M)

\* this.getCols() !== M.getCols() || this.getRows() !== M.getRows()
shapesDiffer(h, m, M) == getCols(h, m) # getCols(h, M) \/ getRows(h, m) # getRows(h, M)

\* getCols() reads this.__value[0].length: a TypeError on a matrix with no rows
getColsThrows(h, m) == getRows(h, m) = 0

\* the guard of add, subtract, multiply and divide for a Matrix M: the error it
\* throws, or "" when it lets the call go on
shapeGuard(h, m, M, mismatch) ==
    IF getColsThrows(h, m) \/ getColsThrows(h, M) THEN TypeError
    ELSE IF shapesDiffer(h, m, M) THEN mismatch
    ELSE ""

\* M.__value[idx][jdx] as an operand of + - *; under the guard both indices exist,
\* and an operand that is undefined makes the result NaN
entry(h, M, idx, jdx) ==
    IF idx <= getRows(h, M) /\ jdx <= Len(Value(h, M)[idx]) THEN Cell(h, h.mats[M].value, idx, jdx)
    ELSE NaN

\* this.map((row, idx) => map((val, jdx) => val + M.__value[idx][jdx])(row))
addRows(h, m, M) ==
    LET f(row, idx) == LET g(val, jdx) == Add(val, entry(h, M, idx, jdx)) IN map(g, row)
    IN  matrixMap(h, m, f)

\* this.map((row, idx) => map((val, jdx) => val - M.__value[idx][jdx])(row))
subtractRows(h, m, M) ==
    LET f(row, idx) == LET g(val, jdx) == Sub(val, entry(h, M, idx, jdx)) IN map(g, row)
    IN  matrixMap(h, m, f)

\* this.map((row, idx) => map((col, jdx) => col * M.__value[idx][jdx])(row))
multiplyRows(h, m, M) ==
    LET f(row, idx) == LET g(col, jdx) == Mul(col, entry(h, M, idx, jdx)) IN map(g, row)
    IN  matrixMap(h, m, f)

\* the outcome of a call whose guard gave err and whose body would return r
guarded(h, err, r) == IF err # "" THEN Thrown(h, err) ELSE Returned(r)

\* Matrix.prototype.add(M) for a Matrix M
add(h, m, M) == guarded(h, shapeGuard(h, m, M, CannotAdd), addRows(h, m, M))

\* Matrix.prototype.subtract(M) for a Matrix M
subtract(h, m, M) == guarded(h, shapeGuard(h, m, M, CannotSubtract), subtractRows(h, m, M))

\* Matrix.prototype.multiply(M) for a Matrix M
multiply(h, m, M) == guarded(h, shapeGuard(h, m, M, CannotHadamard), multiplyRows(h, m, M))

\* Matrix.prototype.add(M) for a number M: this.map(map(x => x + M))
addNumber(h, m, s) ==
    LET f(row, idx) == LET g(x, jdx) == Add(x, s) IN map(g, row)
    IN  Returned(matrixMap(h, m, f))

\* x + M in place of x - M (for C14)
subtractNumberAdds(h, m, s) == addNumber(h, m, s)

\* Matrix.prototype.subtract(M) for a number M: this.map(map(x => x - M))
subtractNumber(h, m, s) ==
    LET f(row, idx) == LET g(x, jdx) == Sub(x, s) IN map(g, row)
    IN  Returned(matrixMap(h, m, f))

\* Matrix.prototype.multiply(M) for a number M: this.map(map(x => x * M))
multiplyNumber(h, m, s) ==
    LET f(row, idx) == LET g(x, jdx) == Mul(x, s) IN map(g, row)
    IN  Returned(matrixMap(h, m, f))

\* Matrix.prototype.isSquare = equals(this.getCols(), this.getRows())
isSquare(h, m) == identical(Int2N(getCols(h, m)), Int2N(getRows(h, m)))

\* this.dot(mInv) for the outcome Inv of M.inverse()
dotInverse(Inv, m) == dotCall(Inv.h, m, Inv.ref[1])

\* Matrix.prototype.divide(M) for a Matrix M
divide(h, m, M) ==
    IF shapeGuard(h, m, M, CannotDivide) # "" THEN Thrown(h, shapeGuard(h, m, M, CannotDivide))
    ELSE IF ~isSquare(h, M) THEN Thrown(h, NotSquareInverse)
    ELSE dotInverse(inverse(h, M), m)

\* this.multiply(M) in place of this.multiply(1 / M) (for C15)
divideNumberTimes(h, m, s) == multiplyNumber(h, m, s)

\* Matrix.prototype.divide(M) for a number M: this.multiply(1 / M)
divideNumber(h, m, s) == multiplyNumber(h, m, Div(Int2N(1), s))

-----------------------------------------------------------------------------
(* Least squares *)

\* b[k] - s for the row b[k] = [v] of a Matrix: the array is converted to a number
\* through its string, so [v] is v, [-0] is 0, [] is 0 and a longer row is NaN
toNumber(row) ==
    IF Len(row) = 0 THEN PosZero
    ELSE IF Len(row) > 1 THEN NaN
    ELSE IF row[1] = NegZero THEN PosZero
    ELSE row[1]

\* var E = Matrix.subtract(b, P): Matrix has no static subtract, the call throws
lsqResidual(P) == IF P.err # "" THEN P ELSE Thrown(P.h, TypeError)

\* var X = Matrix.of(x.map(x => [x])); var P = Matrix.dot(A, X); <E>
lsqFitted(X, A) == lsqResidual(dotCall(X.h, A, X.ref))

\* var x = Matrix.dot(At, A).solve(Matrix.dot(At, b).__value); <X, P, E>
lsqSolved(x, A) ==
    IF x.err # "" THEN Thrown(x.h, x.err)
    ELSE lsqFitted(ofContent(x.h, [i \in 1..Len(x.val) |-> <<x.val[i]>>]), A)

\* the two products of the normal equations, then the rest
lsqNormal(AtA, At, A, b) ==
    IF AtA.err # "" THEN AtA
    ELSE LET Atb == dotCall(AtA.h, At, b)
         IN  IF Atb.err # "" THEN Atb
             ELSE lsqSolved(solve(Atb.h, AtA.ref[1],
                                  [k \in 1..getRows(Atb.h, Atb.ref[1]) |->
                                      toNumber(Value(Atb.h, Atb.ref[1])[k])]), A)

\* Matrix.prototype.lsq(b) for a Matrix b
lsq(h, m, b) ==
    LET A == libClone(h, m)
        At == transpose(A.h, A.ref)
    IN  lsqNormal(dotCall(At.h, At.ref, A.ref), At.ref, A.ref, b)

-----------------------------------------------------------------------------
(* The caller: bounds, inputs and the shape of a call's outcome *)

\* largest row count and column count of the input matrices
MaxDim == 3

\* input entries are the integers -MaxVal..MaxVal
MaxVal == 1

Vals == {Int2N(v) : v \in -MaxVal..MaxVal}

\* the r x c arrays of arrays with entries in V
Mats(r, c, V) == [1..r -> [1..c -> V]]

Range(f) == {f[x] : x \in DOMAIN f}

InitRes == [op |-> "init", on |-> "", err |-> "", ref |-> <<>>, val |-> <<>>]

\* no call is being followed loop by loop
Idle == [pc |-> "idle"]

\* the state after `const arr = content; const m = Matrix.of(arr)`
Constructed(content) ==
    LET a == NewArray(EmptyHeap, content)
        M == of(a.h, a.ref)
    IN  /\ heap = M.h
        /\ arr = a.ref
        /\ env = ("m" :> M.ref)
        /\ res = InitRes
        /\ writes = 0
        /\ num = PosZero
        /\ frame = Idle

\* the heap the next call starts from: the previous outcome is no longer held
Base == Collect(heap, {arr}, Range(env))

\* a call on the caller's matrix `on` ends with outcome r; only what the caller holds is kept
Return(r, op, on) ==
    /\ heap' = Collect(r.h, {arr}, Range(env) \cup Range(r.ref))
    /\ res' = [op |-> op, on |-> on, err |-> r.err, ref |-> r.ref, val |-> r.val]
    /\ UNCHANGED <<arr, env, writes, num, frame>>

-----------------------------------------------------------------------------
(* SpecLU: lu() on square matrices *)

\* entries below, at and just above the pivot tolerance
TinyVals == {Frac(1, 2000000), Frac(-1, 2000000), Frac(1, 1000000), Frac(2000001, 2000000)}

\* 2 x 2 matrices with one entry around the tolerance
TinyInputs ==
    {[M EXCEPT ![i][j] = t] : M \in Mats(2, 2, Vals), i \in 1..2, j \in 1..2, t \in TinyVals}

\* the matrices of the documentation examples
LuExample == << <<Int2N(3), Int2N(-7), Int2N(-2), Int2N(2)>>,
                <<Int2N(-3), Int2N(5), Int2N(1), PosZero>>,
                <<Int2N(6), Int2N(-4), PosZero, Int2N(-5)>>,
                <<Int2N(-9), Int2N(5), Int2N(-5), Int2N(12)>> >>

SquareInputs ==
    UNION {Mats(n, n, Vals) : n \in 1..MaxDim} \cup TinyInputs \cup {LuExample}

InitLU == \E content \in SquareInputs : Constructed(content)

Lu(n) ==
    /\ n \in DOMAIN env
    /\ IF getRows(heap, env[n]) = 0 THEN TRUE ELSE getRows(heap, env[n]) <= getCols(heap, env[n])
    /\ Return(lu(Base, env[n]), "lu", n)

NextLU == Lu("m")

SpecLU == InitLU /\ [][NextLU]_vars

-----------------------------------------------------------------------------
(* Spec: construction, copies and in-place writes by the caller *)

\* the number of in-place writes the caller makes
MaxWrites == 2

\* largest row count and column count of the arrays the caller wraps
AliasDim == 2

\* the value the caller writes; no input holds it
Written == Int2N(5)

AliasInputs == UNION {Mats(r, c, {PosZero, Int2N(1)}) : r \in 1..AliasDim, c \in 1..AliasDim}

\* the state after `const arr = content`
Init ==
    \E content \in AliasInputs :
        LET a == NewArray(EmptyHeap, content)
        IN  /\ heap = a.h
            /\ arr = a.ref
            /\ env = [n \in {} |-> 0]
            /\ res = InitRes
            /\ writes = 0
            /\ num = PosZero
            /\ frame = Idle

\* `const n = <call>` where the call ends with outcome r
Bind(r, n, op, on) ==
    /\ n \notin DOMAIN env
    /\ env' = (n :> r.ref) @@ env
    /\ heap' = Collect(r.h, {arr}, Range(env'))
    /\ res' = [op |-> op, on |-> on, err |-> "", ref |-> <<>>, val |-> <<>>]
    /\ UNCHANGED <<arr, writes, num, frame>>

\* const m = Matrix.of(arr)
OfArray(n) == Bind(of(heap, arr), n, "of", "arr")

\* const dst = Matrix.of(src) for a Matrix src
OfMatrix(src, dst) ==
    /\ src \in DOMAIN env
    /\ Bind(ofMatrix(heap, env[src]), dst, "of", src)

\* const dst = src.clone()
Clone(src, dst) ==
    /\ src \in DOMAIN env
    /\ Bind(clone(heap, env[src]), dst, "clone", src)

\* const dst = Matrix.fromArray(arr)
FromArray(dst) == Bind(fromArray(heap, arr), dst, "fromArray", "arr")

\* an in-place write by the caller ends in heap h
Wrote(h, op, on) ==
    /\ writes < MaxWrites
    /\ writes' = writes + 1
    /\ heap' = Collect(h, {arr}, Range(env))
    /\ res' = [op |-> op, on |-> on, err |-> "", ref |-> <<>>, val |-> <<>>]
    /\ UNCHANGED <<arr, env, num, frame>>

\* arr[i][j] = v
WriteArr(i, j, v) ==
    /\ i \in 1..Len(heap.outer[arr])
    /\ j \in 1..Len(Content(heap, arr)[i])
    /\ Wrote(SetCell(heap, arr, i, j, v), "write", "arr")

\* n.__value[i][j] = v
WriteMat(n, i, j, v) ==
    /\ n \in DOMAIN env
    /\ i \in 1..Len(Value(heap, env[n]))
    /\ j \in 1..Len(Value(heap, env[n])[i])
    /\ Wrote(SetCell(heap, heap.mats[env[n]].value, i, j, v), "write", n)

\* n.__value[i] = [v, ..., v]: row i is replaced by a new row array
WriteRow(n, i, v) ==
    /\ n \in DOMAIN env
    /\ i \in 1..Len(Value(heap, env[n]))
    /\ LET r == NewRow(heap, [j \in 1..Len(Value(heap, env[n])[i]) |-> v])
       IN  Wrote([r.h EXCEPT !.outer[heap.mats[env[n]].value][i] = r.ref], "writeRow", n)

Next ==
    \/ OfArray("m")
    \/ OfMatrix("m", "w")
    \/ OfMatrix("w", "w2")
    \/ Clone("m", "c")
    \/ FromArray("f")
    \/ \E i, j \in 1..AliasDim : WriteArr(i, j, Written)
    \/ \E n \in {"m", "w", "w2", "c", "f"} : \E i, j \in 1..AliasDim : WriteMat(n, i, j, Written)
    \/ \E n \in {"m", "w", "w2", "c", "f"} : \E i \in 1..AliasDim : WriteRow(n, i, Written)

Spec == Init /\ [][Next]_vars

-----------------------------------------------------------------------------
(* SpecFrame: the decompositions and what is built on them, called in any order *)

\* every shape up to MaxDim x MaxDim over {0, 1}, the 2 x 2 matrices over Vals
\* and the 4 x 4 example of the documentation
FrameInputs ==
    UNION {Mats(r, c, {PosZero, Int2N(1)}) : r \in 1..MaxDim, c \in 1..MaxDim}
        \cup Mats(2, 2, Vals) \cup {LuExample}

\* right-hand sides of length n
Rhs(n) == {[k \in 1..n |-> Int2N(1)], [k \in 1..n |-> Int2N(k - 2)]}

InitFrame == \E content \in FrameInputs : Constructed(content)

Rref(n) ==
    /\ n \in DOMAIN env
    /\ Return(rref(Base, env[n]), "rref", n)

Inverse(n) ==
    /\ n \in DOMAIN env
    /\ Return(inverse(Base, env[n]), "inverse", n)

Rank(n) ==
    /\ n \in DOMAIN env
    /\ Return(rank(Base, env[n]), "rank", n)

Determinant(n) ==
    /\ n \in DOMAIN env
    /\ Return(determinant(Base, env[n]), "determinant", n)

Solve(n, b) ==
    /\ n \in DOMAIN env
    /\ getRows(heap, env[n]) <= getCols(heap, env[n])
    /\ Len(b) = getRows(heap, env[n])
    /\ Return(solve(Base, env[n], b), "solve", n)

NextFrame ==
    \/ Lu("m")
    \/ Rref("m")
    \/ Inverse("m")
    \/ Rank("m")
    \/ Determinant("m")
    \/ \E b \in UNION {Rhs(k) : k \in 1..MaxDim} : Solve("m", b)

SpecFrame == InitFrame /\ [][NextFrame]_vars

-----------------------------------------------------------------------------
(* SpecT: transpose(), and transpose() of its result *)

\* [[-1, 2], [3, 4], [-8, 2]] of the documentation
TransposeExample == << <<Int2N(-1), Int2N(2)>>, <<Int2N(3), Int2N(4)>>, <<Int2N(-8), Int2N(2)>> >>

\* every shape from 0 x 0 to MaxDim x MaxDim, with no rows and with rows of length zero
TInputs == UNION {Mats(r, c, Vals) : r \in 0..MaxDim, c \in 0..MaxDim} \cup {TransposeExample}

InitT == \E content \in TInputs : Constructed(content)

\* const t = m.transpose()
Transpose(n) ==
    /\ n \in DOMAIN env
    /\ res.op = "init"
    /\ Return(Returned(transpose(Base, env[n])), "transpose", n)

\* const tt = t.transpose(), for the t of the last call
TransposeAgain ==
    /\ res.op = "transpose"
    /\ Return(Returned(transpose(heap, res.ref[1])), "transpose2", res.on)

NextT == Transpose("m") \/ TransposeAgain

SpecT == InitT /\ [][NextT]_vars

-----------------------------------------------------------------------------
(* SpecDot: m.dot(b), after setPrecision on either matrix *)

\* largest row count and column count of the factors
DotDim == 2

\* a precision other than the default
OtherPrecision == 2

\* entries whose products are integers, halves, ties at the fifth decimal and
\* values below 1e-6
DotVals == {Int2N(2), Frac(1, 2), Frac(-1, 2000)}

\* dot([[1,2,3],[4,5,6]], [[7,8],[9,10],[11,12]]) of the documentation
DotExampleA == << <<Int2N(1), Int2N(2), Int2N(3)>>, <<Int2N(4), Int2N(5), Int2N(6)>> >>

DotExampleB == << <<Int2N(7), Int2N(8)>>, <<Int2N(9), Int2N(10)>>, <<Int2N(11), Int2N(12)>> >>

\* pairs A (r x n), B (n x c)
DotInputs ==
    UNION {Mats(r, n, DotVals) \X Mats(n, c, DotVals) : r \in 1..DotDim, n \in 1..DotDim, c \in 1..DotDim}
        \cup {<<DotExampleA, DotExampleB>>}

\* the state after `const m = Matrix.of(arr); const b = Matrix.of(<array>)`
InitDot ==
    \E ab \in DotInputs :
        LET a == NewArray(EmptyHeap, ab[1])
            M == of(a.h, a.ref)
            B == ofContent(M.h, ab[2])
        IN  /\ heap = B.h
            /\ arr = a.ref
            /\ env = ("m" :> M.ref) @@ ("b" :> B.ref)
            /\ res = InitRes
            /\ writes = 0
            /\ num = PosZero
            /\ frame = Idle

\* n.setPrecision(precision), before the call under study
SetPrecision(n, precision) ==
    /\ n \in DOMAIN env
    /\ res.op = "init"
    /\ heap.mats[env[n]].precision # precision
    /\ heap' = setPrecision(heap, env[n], precision)
    /\ UNCHANGED <<arr, env, res, writes, num, frame>>

\* n.dot(M)
Dot(n, M) ==
    /\ {n, M} \subseteq DOMAIN env
    /\ res.op = "init"
    /\ Return(dotCall(Base, env[n], env[M]), "dot", n)

NextDot ==
    \/ SetPrecision("m", OtherPrecision)
    \/ SetPrecision("b", OtherPrecision)
    \/ Dot("m", "b")

SpecDot == InitDot /\ [][NextDot]_vars

-----------------------------------------------------------------------------
(* SpecUnit: m.dot(identity) *)

\* -1, 0.5, 0.0005, 0.00005, -0 and 0.0000005
UnitVals == {Int2N(-1), Frac(1, 2), Frac(1, 2000), Frac(1, 20000), NegZero, Frac(1, 2000000)}

\* every shape from 0 x 0 to DotDim x DotDim
UnitInputs == UNION {Mats(r, c, UnitVals) : r \in 0..DotDim, c \in 0..DotDim}

InitUnit == \E content \in UnitInputs : Constructed(content)

\* n.dot(Matrix.identity(n.getCols(), n.getCols()))
DotStaticIdentity(n) ==
    /\ n \in DOMAIN env
    /\ res.op = "init"
    /\ Return(dotStaticIdentity(Base, env[n]), "dotStaticIdentity", n)

\* n.dot(n.identity()) for a square n
DotOwnIdentity(n) ==
    /\ n \in DOMAIN env
    /\ res.op = "init"
    /\ getRows(heap, env[n]) > 0
    /\ getRows(heap, env[n]) = getCols(heap, env[n])
    /\ Return(dotOwnIdentity(Base, env[n]), "dotOwnIdentity", n)

NextUnit ==
    \/ SetPrecision("m", OtherPrecision)
    \/ DotStaticIdentity("m")
    \/ DotOwnIdentity("m")

SpecUnit == InitUnit /\ [][NextUnit]_vars

-----------------------------------------------------------------------------
(* SpecInv: const inv = m.inverse(); m.dot(inv) *)

\* [[1, 1], [2, 4]] of the documentation
InverseExample == << <<Int2N(1), Int2N(1)>>, <<Int2N(2), Int2N(4)>> >>

\* an invertible matrix with an entry 1e-7
InverseTiny == << <<Int2N(1), Frac(1, 10000000)>>, <<PosZero, Int2N(1)>> >>

\* the square matrices up to MaxDim over Vals, the 2 x 2 matrices over 1..4,
\* the example and a matrix with a small entry
InvInputs ==
    UNION {Mats(n, n, Vals) : n \in 1..MaxDim}
        \cup Mats(2, 2, {Int2N(v) : v \in 1..4}) \cup {InverseExample, InverseTiny}

InitInv == \E content \in InvInputs : Constructed(content)

\* const inv = n.inverse()
BindInverse(n, dst) ==
    /\ n \in DOMAIN env
    /\ res.op = "init"
    /\ LET r == inverse(heap, env[n])
       IN  Bind([h |-> r.h, ref |-> r.ref[1]], dst, "inverse", n)

\* n.dot(inv) for the inverse just bound
DotInverse(n, inv) ==
    /\ {n, inv} \subseteq DOMAIN env
    /\ res.op = "inverse"
    /\ Return(dotCall(Base, env[n], env[inv]), "dotInverse", n)

NextInv ==
    \/ SetPrecision("m", OtherPrecision)
    \/ BindInverse("m", "inv")
    \/ DotInverse("m", "inv")

SpecInv == InitInv /\ [][NextInv]_vars

-----------------------------------------------------------------------------
(* SpecPair: one call with a second matrix b or with the number num *)

\* entries of the two operands
PairVals == {Int2N(1), Int2N(-2)}

\* the numbers passed to add, subtract, multiply and divide
Scalars == {PosZero, Int2N(1), Int2N(2), Frac(-1, 2)}

\* [[5, 4]] and [[5, 5]] of the documentation
ArithExampleA == << <<Int2N(5), Int2N(4)>> >>

ArithExampleB == << <<Int2N(5), Int2N(5)>> >>

\* [[0, 1, 1], [2, 3, 4]] and [[2, 2, 2], [3, 3, 3]] of the documentation
ConcatExampleA == << <<PosZero, Int2N(1), Int2N(1)>>, <<Int2N(2), Int2N(3), Int2N(4)>> >>

ConcatExampleB == << <<Int2N(2), Int2N(2), Int2N(2)>>, <<Int2N(3), Int2N(3), Int2N(3)>> >>

\* an invertible matrix whose inverse [[1, -5e-7], [0, 0.005]] has a small entry
DivideTiny == << <<Int2N(1), Frac(1, 10000)>>, <<PosZero, Int2N(200)>> >>

\* every shape from 0 x 0 to DotDim x DotDim
PairShapes == UNION {Mats(r, c, PairVals) : r \in 0..DotDim, c \in 0..DotDim}

PairInputs ==
    (PairShapes \X PairShapes)
        \cup {<<ArithExampleA, ArithExampleB>>, <<InverseExample, InverseExample>>,
              <<DivideTiny, DivideTiny>>, <<ConcatExampleA, ConcatExampleB>>}

\* the state after `const m = Matrix.of(arr); const b = Matrix.of(<array>); const num = s`
InitPair ==
    \E ab \in PairInputs, s \in Scalars :
        LET a == NewArray(EmptyHeap, ab[1])
            M == of(a.h, a.ref)
            B == ofContent(M.h, ab[2])
        IN  /\ heap = B.h
            /\ arr = a.ref
            /\ env = ("m" :> M.ref) @@ ("b" :> B.ref)
            /\ res = InitRes
            /\ writes = 0
            /\ num = s
            /\ frame = Idle

\* a call n.op(M) on the caller's matrices that ends with outcome r
CallPair(n, M, r, op) ==
    /\ {n, M} \subseteq DOMAIN env
    /\ res.op = "init"
    /\ Return(r, op, n)

\* n.concat(M); a row of M that is missing would be read as undefined, so M has
\* at least the rows of n
Concat(n, M) ==
    /\ {n, M} \subseteq DOMAIN env
    /\ getRows(heap, env[n]) <= getRows(heap, env[M])
    /\ CallPair(n, M, Returned(concat(Base, env[n], env[M])), "concat")

AddMatrix(n, M) == CallPair(n, M, add(Base, env[n], env[M]), "add")

SubtractMatrix(n, M) == CallPair(n, M, subtract(Base, env[n], env[M]), "subtract")

MultiplyMatrix(n, M) == CallPair(n, M, multiply(Base, env[n], env[M]), "multiply")

DivideMatrix(n, M) == CallPair(n, M, divide(Base, env[n], env[M]), "divide")

AddNumber(n) == CallPair(n, n, addNumber(Base, env[n], num), "addNumber")

SubtractNumber(n) == CallPair(n, n, subtractNumber(Base, env[n], num), "subtractNumber")

MultiplyNumber(n) == CallPair(n, n, multiplyNumber(Base, env[n], num), "multiplyNumber")

DivideNumber(n) == CallPair(n, n, divideNumber(Base, env[n], num), "divideNumber")

NextPair ==
    \/ Concat("m", "b")
    \/ AddMatrix("m", "b")
    \/ SubtractMatrix("m", "b")
    \/ MultiplyMatrix("m", "b")
    \/ DivideMatrix("m", "b")
    \/ AddNumber("m")
    \/ SubtractNumber("m")
    \/ MultiplyNumber("m")
    \/ DivideNumber("m")

SpecPair == InitPair /\ [][NextPair]_vars

-----------------------------------------------------------------------------
(* SpecDet: determinant(), alone and after lu() *)

\* the square inputs of lu(), every shape up to MaxDim x MaxDim over {0, 1},
\* the example [[1, 1], [2, 4]] and the matrix with no rows
DetInputs == SquareInputs \cup FrameInputs \cup {InverseExample, <<>>}

InitDet == \E content \in DetInputs : Constructed(content)

NextDet == Lu("m") \/ Determinant("m")

SpecDet == InitDet /\ [][NextDet]_vars

-----------------------------------------------------------------------------
(* SpecRref: rref() and rank() *)

\* every shape from 1 x 1 to MaxDim x MaxDim over Vals, the 4 x 4 example and
\* the matrix with no rows
RrefInputs ==
    UNION {Mats(r, c, Vals) : r \in 1..MaxDim, c \in 1..MaxDim} \cup {LuExample, <<>>}

InitRref == \E content \in RrefInputs : Constructed(content)

NextRref == Rref("m") \/ Rank("m")

SpecRref == InitRref /\ [][NextRref]_vars

-----------------------------------------------------------------------------
(* SpecSolve: lu() and solve(b) on square matrices *)

\* the documentation example of solve: 5x + y = 7, 3x - 4y = 18
SolveExampleA == << <<Int2N(5), Int2N(1)>>, <<Int2N(3), Int2N(-4)>> >>

SolveExampleB == <<Int2N(7), Int2N(18)>>

SolveInputs == UNION {Mats(n, n, Vals) : n \in 1..MaxDim} \cup {SolveExampleA, LuExample}

\* right-hand sides of length n
SolveRhs(n) ==
    Rhs(n) \cup {[k \in 1..n |-> IF k = n THEN Frac(1, 2) ELSE PosZero]}
           \cup (IF n = 2 THEN {SolveExampleB} ELSE {})

\* the state after `const m = Matrix.of(arr); const b = <array of n numbers>`
InitSolve ==
    \E content \in SolveInputs : \E b \in SolveRhs(Len(content)) :
        LET a == NewArray(EmptyHeap, content)
            M == of(a.h, a.ref)
        IN  /\ heap = M.h
            /\ arr = a.ref
            /\ env = ("m" :> M.ref)
            /\ res = InitRes
            /\ writes = 0
            /\ num = b
            /\ frame = Idle

NextSolve == Lu("m") \/ Solve("m", num)

SpecSolve == InitSolve /\ [][NextSolve]_vars

-----------------------------------------------------------------------------
(* SpecIdentity: m.identity() and Matrix.identity(rows, cols) *)

\* every shape from 0 x 0 to MaxDim x MaxDim, with no rows and with rows of length zero
IdentityInputs ==
    UNION {Mats(r, c, {PosZero, Int2N(2)}) : r \in 0..MaxDim, c \in 0..MaxDim}

InitIdentity == \E content \in IdentityInputs : Constructed(content)

\* n.identity()
Identity(n) ==
    /\ n \in DOMAIN env
    /\ Return(Returned(identity(Base, env[n])), "identity", n)

\* Matrix.identity(rows, cols)
StaticIdentity(rows, cols) ==
    Return(Returned(staticIdentity(Base, rows, cols)), "staticIdentity", "")

NextIdentity ==
    \/ Identity("m")
    \/ \E rows \in 0..MaxDim, cols \in 0..MaxDim : StaticIdentity(rows, cols)

SpecIdentity == InitIdentity /\ [][NextIdentity]_vars

-----------------------------------------------------------------------------
(* SpecLsq: lsq(b) with a column b *)

LsqVals == {Int2N(-1), PosZero, Int2N(2)}

\* pairs A (r x c), b (r x 1), with up to DotDim unknowns
LsqInputs ==
    UNION {Mats(r, c, Vals) \X Mats(r, 1, LsqVals) : r \in 1..MaxDim, c \in 1..DotDim}

\* the state after `const m = Matrix.of(arr); const b = Matrix.of(<column>)`
InitLsq ==
    \E ab \in LsqInputs :
        LET a == NewArray(EmptyHeap, ab[1])
            M == of(a.h, a.ref)
            B == ofContent(M.h, ab[2])
        IN  /\ heap = B.h
            /\ arr = a.ref
            /\ env = ("m" :> M.ref) @@ ("b" :> B.ref)
            /\ res = InitRes
            /\ writes = 0
            /\ num = PosZero
            /\ frame = Idle

\* n.lsq(M)
Lsq(n, M) ==
    /\ {n, M} \subseteq DOMAIN env
    /\ Return(lsq(Base, env[n], env[M]), "lsq", n)

NextLsq == Lsq("m", "b")

SpecLsq == InitLsq /\ [][NextLsq]_vars

-----------------------------------------------------------------------------
(* SpecClone: setPrecision(p), then clone() *)

\* the precisions the caller sets
Precisions == 0..(DefaultPrecision + OtherPrecision)

\* n.clone() of the source
CloneOf(n) ==
    /\ n \in DOMAIN env
    /\ Return(Returned(clone(Base, env[n])), "clone", n)

\* n.clone() of the built library
LibCloneOf(n) ==
    /\ n \in DOMAIN env
    /\ Return(Returned(libClone(Base, env[n])), "libClone", n)

NextClone ==
    \/ \E p \in Precisions : SetPrecision("m", p)
    \/ CloneOf("m")
    \/ LibCloneOf("m")

SpecClone == InitIdentity /\ [][NextClone]_vars

-----------------------------------------------------------------------------
(* SpecRrefSteps: one call of rref() followed loop by loop *)

\* a 3 x 3 matrix of rank 2 that takes a row exchange
RrefExample == << <<PosZero, Int2N(1), Int2N(1)>>,
                  <<Int2N(1), Int2N(1), PosZero>>,
                  <<Int2N(1), PosZero, Int2N(-1)>> >>

\* matrices with one row or more, rows of length zero included: tall, square and wide
RrefStepInputs ==
    UNION {Mats(r, c, {PosZero, Int2N(1)}) : r \in 1..MaxDim, c \in 0..DotDim}
        \cup Mats(DotDim, MaxDim, {PosZero, Int2N(1)})
        \cup Mats(2, 2, Vals)
        \cup {RrefExample, [i \in 1..MaxDim |-> [j \in 1..MaxDim |-> PosZero]]}

InitRrefSteps == \E content \in RrefStepInputs : Constructed(content)

\* the array of the rows of resultMatrix
FrameRows == heap.mats[frame.R].value

\* let lead = 0; const resultMatrix = this.clone()
RrefEnter(n) ==
    /\ n \in DOMAIN env
    /\ frame = Idle
    /\ res.op = "init"
    /\ LET M == clone(heap, env[n])
       IN  /\ heap' = M.h
           /\ frame' = [pc |-> "for", on |-> n, R |-> M.ref, r |-> 1, i |-> 1, lead |-> 1,
                        j |-> 1, k |-> 1, val |-> PosZero]
    /\ UNCHANGED <<arr, env, res, writes, num>>

\* return resultMatrix
RrefReturn ==
    /\ heap' = Collect(heap, {arr}, Range(env) \cup {frame.R})
    /\ res' = [op |-> "rref", on |-> frame.on, err |-> "", ref |-> <<frame.R>>, val |-> <<>>]
    /\ frame' = [pc |-> "done"]
    /\ UNCHANGED <<arr, env, writes, num>>

\* a read of a row that does not exist
RrefThrow ==
    /\ heap' = Collect(heap, {arr}, Range(env))
    /\ res' = [op |-> "rref", on |-> frame.on, err |-> TypeError, ref |-> <<>>, val |-> <<>>]
    /\ frame' = [pc |-> "done"]
    /\ UNCHANGED <<arr, env, writes, num>>

\* the locals change and nothing else does
RrefGoto(f) ==
    /\ frame' = f
    /\ UNCHANGED <<heap, arr, env, res, writes, num>>

\* the locals change and resultMatrix is written
RrefWrite(h, f) ==
    /\ heap' = h
    /\ frame' = f
    /\ UNCHANGED <<arr, env, res, writes, num>>

\* this.getRows() and this.getCols() of the receiver of the call
FrameN == getRows(heap, env[frame.on])

FrameM == getCols(heap, env[frame.on])

\* for (r = 0; r < this.getRows(); ++r) { if (this.getCols() <= lead) return; let i = r
RrefFor ==
    /\ frame.pc = "for"
    /\ IF frame.r > FrameN THEN RrefReturn
       ELSE IF FrameM < frame.lead THEN RrefReturn
       ELSE RrefGoto([frame EXCEPT !.pc = "while", !.i = frame.r])

\* one test of while (resultMatrix.__value[i][lead] === 0) and, on a zero, the loop body
RrefWhile ==
    /\ frame.pc = "while"
    /\ IF frame.i > Len(heap.outer[FrameRows]) THEN RrefThrow
       ELSE IF frame.lead > Len(Content(heap, FrameRows)[frame.i])
            THEN RrefGoto([frame EXCEPT !.pc = "swap"])
       ELSE IF StrictEq(Cell(heap, FrameRows, frame.i, frame.lead), PosZero)
            THEN LET f == rrefAfterZero(frame, FrameN, FrameM)
                 IN  IF f.pc = "return" THEN RrefReturn ELSE RrefGoto(f)
       ELSE RrefGoto([frame EXCEPT !.pc = "swap"])

\* the exchange of rows i and r; let val = resultMatrix.__value[r][lead]; j = 0
RrefSwap ==
    /\ frame.pc = "swap"
    /\ LET h == rrefSwap(heap, FrameRows, frame.i, frame.r)
       IN  RrefWrite(h, [frame EXCEPT !.pc = "scale", !.j = 1,
                                      !.val = Cell(h, FrameRows, frame.r, frame.lead)])

\* for (j = 0; j < this.getCols(); ++j) resultMatrix.__value[r][j] /= val; then i = 0
RrefScale ==
    /\ frame.pc = "scale"
    /\ IF frame.j > FrameM THEN RrefGoto([frame EXCEPT !.pc = "rows", !.k = 1])
       ELSE RrefWrite(SetCell(heap, FrameRows, frame.r, frame.j,
                              Div(Cell(heap, FrameRows, frame.r, frame.j), frame.val)),
                      [frame EXCEPT !.j = frame.j + 1])

\* for (i = 0; i < this.getRows(); ++i) { if (i === r) continue;
\* val = resultMatrix.__value[i][lead]; j = 0 ...; after the loop lead++ and ++r
RrefRows ==
    /\ frame.pc = "rows"
    /\ IF frame.k > FrameN
       THEN RrefGoto([frame EXCEPT !.pc = "for", !.lead = frame.lead + 1, !.r = frame.r + 1])
       ELSE IF frame.k = frame.r THEN RrefGoto([frame EXCEPT !.k = frame.k + 1])
       ELSE RrefGoto([frame EXCEPT !.pc = "eliminate", !.j = 1,
                                   !.val = Cell(heap, FrameRows, frame.k, frame.lead)])

\* for (j = 0; j < this.getCols(); ++j) resultMatrix.__value[i][j] -= val * resultMatrix.__value[r][j]
RrefEliminate ==
    /\ frame.pc = "eliminate"
    /\ IF frame.j > FrameM THEN RrefGoto([frame EXCEPT !.pc = "rows", !.k = frame.k + 1])
       ELSE RrefWrite(SetCell(heap, FrameRows, frame.k, frame.j,
                              Sub(Cell(heap, FrameRows, frame.k, frame.j),
                                  Mul(frame.val, Cell(heap, FrameRows, frame.r, frame.j)))),
                      [frame EXCEPT !.j = frame.j + 1])

\* the steps of a call that has begun
RrefRun == RrefFor \/ RrefWhile \/ RrefSwap \/ RrefScale \/ RrefRows \/ RrefEliminate

NextRrefSteps == RrefEnter("m") \/ RrefRun

\* a call that has begun runs on: nothing else is scheduled in between
SpecRrefSteps == InitRrefSteps /\ [][NextRrefSteps]_vars /\ WF_vars(RrefRun)

-----------------------------------------------------------------------------
(* SpecFail: one call of an operation that can fail, with a second matrix b *)

\* pairs of every shape from 0 x 0 to DotDim x DotDim, and the square matrices
\* over {0, 1} with themselves
FailInputs ==
    (PairShapes \X PairShapes)
        \cup {<<M, M>> : M \in Mats(DotDim, DotDim, {PosZero, Int2N(1)})
                                \cup Mats(MaxDim, MaxDim, {PosZero, Int2N(1)})}

\* the state after `const m = Matrix.of(arr); const b = Matrix.of(<array>)`,
\* with an array of ones as the right-hand side of solve
InitFail ==
    \E ab \in FailInputs :
        LET a == NewArray(EmptyHeap, ab[1])
            M == of(a.h, a.ref)
            B == ofContent(M.h, ab[2])
        IN  /\ heap = B.h
            /\ arr = a.ref
            /\ env = ("m" :> M.ref) @@ ("b" :> B.ref)
            /\ res = InitRes
            /\ writes = 0
            /\ num = [k \in 1..Len(ab[1]) |-> Int2N(1)]
            /\ frame = Idle

NextFail ==
    \/ AddMatrix("m", "b")
    \/ SubtractMatrix("m", "b")
    \/ MultiplyMatrix("m", "b")
    \/ DivideMatrix("m", "b")
    \/ Lu("m")
    \/ (getRows(heap, env["m"]) >= 1 /\ Solve("m", num))
    \/ Determinant("m")

SpecFail == InitFail /\ [][NextFail]_vars

-----------------------------------------------------------------------------
(* SpecPrecision: setPrecision on any instance, between calls on m and its clone *)

\* the operations that return matrices
Operations ==
    {"map", "concat", "dot", "transpose", "add", "subtract", "multiply", "zeros", "ones",
     "identity", "rref", "inverse", "lu", "clone"}

\* the outcome of m.<op>(), with m itself as the argument where one is taken
\* and row => row as the callback of map
outcomeOf(op, h, m) ==
    CASE op = "map" -> LET keep(row, idx) == row IN Returned(matrixMap(h, m, keep))
      [] op = "concat" -> Returned(concat(h, m, m))
      [] op = "dot" -> dotCall(h, m, m)
      [] op = "transpose" -> Returned(transpose(h, m))
      [] op = "add" -> add(h, m, m)
      [] op = "subtract" -> subtract(h, m, m)
      [] op = "multiply" -> multiply(h, m, m)
      [] op = "zeros" -> Returned(zeros(h, m))
      [] op = "ones" -> Returned(ones(h, m))
      [] op = "identity" -> Returned(identity(h, m))
      [] op = "rref" -> rref(h, m)
      [] op = "inverse" -> inverse(h, m)
      [] op = "lu" -> lu(h, m)
      [] op = "clone" -> Returned(clone(h, m))

\* square matrices with one or DotDim rows
PrecisionInputs == Mats(1, 1, {PosZero, Int2N(1)}) \cup Mats(DotDim, DotDim, {PosZero, Int2N(1)})

InitPrecision == \E content \in PrecisionInputs : Constructed(content)

\* the precisions the caller sets: another one and the default
SetPrecisions == {OtherPrecision, DefaultPrecision}

\* n.setPrecision(p), at any time
SetPrecisionOf(n, p) ==
    /\ n \in DOMAIN env
    /\ heap.mats[env[n]].precision # p
    /\ heap' = setPrecision(heap, env[n], p)
    /\ UNCHANGED <<arr, env, res, writes, num, frame>>

\* n.<op>(...)
Call(n, op) ==
    /\ n \in DOMAIN env
    /\ Return(outcomeOf(op, Base, env[n]), op, n)

NextPrecision ==
    \/ OfMatrix("m", "a")
    \/ Clone("m", "c")
    \/ \E n \in {"m", "a", "c"}, p \in SetPrecisions : SetPrecisionOf(n, p)
    \/ \E n \in {"m", "c"}, op \in Operations : Call(n, op)

SpecPrecision == InitPrecision /\ [][NextPrecision]_vars

-----------------------------------------------------------------------------
(* Reference mathematics used to state the properties *)

\* sum over k of X[i][k] * Y[k][j], exactly
RECURSIVE SumProd(_, _, _, _, _)
SumProd(X, Y, i, j, k) ==
    IF k = 0 THEN PosZero ELSE Add(SumProd(X, Y, i, j, k - 1), Mul(X[i][k], Y[k][j]))

\* the matrix M without row 1 and column c
Minor(M, c) ==
    [i \in 1..(Len(M) - 1) |->
        [j \in 1..(Len(M) - 1) |-> IF j < c THEN M[i + 1][j] ELSE M[i + 1][j + 1]]]

\* the determinant of a square matrix, by expansion along the first row
RECURSIVE Det(_)
RECURSIVE DetTerms(_, _)
Det(M) == IF Len(M) = 0 THEN Int2N(1) ELSE DetTerms(M, Len(M))
DetTerms(M, c) ==
    IF c = 0 THEN PosZero
    ELSE LET t == Mul(M[1][c], Det(Minor(M, c)))
         IN  Add(DetTerms(M, c - 1), IF c % 2 = 1 THEN t ELSE Neg(t))

\* the leading k x k block of M
Leading(M, k) == [i \in 1..k |-> [j \in 1..k |-> M[i][j]]]

\* the k-th pivot of elimination without row exchanges: a ratio of leading minors
Pivot(M, k) == Div(Det(Leading(M, k)), Det(Leading(M, k - 1)))

\* |x| < 1e-6
BelowTolerance(x) == Lt(Abs(x), Frac(1, 1000000))

\* elimination without row exchanges meets a pivot below the tolerance
SmallPivot(M) ==
    \E k \in 1..Len(M) :
        /\ \A j \in 1..(k - 1) : ~BelowTolerance(Pivot(M, j))
        /\ BelowTolerance(Pivot(M, k))

\* x rounded to the given number of decimals, ties toward +Infinity, for finite x
RoundHalfUp(x, decimals) ==
    IF IsZero(x) THEN PosZero
    ELSE Frac((2 * x[1] * Pow10(decimals) + x[2]) \div (2 * x[2]), Pow10(decimals))

\* sum over k = 1..n of the rounded products X[i][k] * Y[k][j]
RECURSIVE SumRoundedProd(_, _, _, _, _, _)
SumRoundedProd(X, Y, i, j, n, decimals) ==
    IF n = 0 THEN PosZero
    ELSE Add(SumRoundedProd(X, Y, i, j, n - 1, decimals), RoundHalfUp(Mul(X[i][n], Y[n][j]), decimals))

\* 0 < |x| < 1e-6
Tiny(x) == ~IsZero(x) /\ BelowTolerance(x)

\* x is an integer multiple of 10^-decimals, and not -0
Representable(x, decimals) ==
    /\ IsFinite(x)
    /\ x # NegZero
    /\ (AbsI(x[1]) * Pow10(decimals)) % x[2] = 0

\* the caller's matrix m, read now
MV == Value(heap, env["m"])

\* the caller's matrix b, read now
BV == Value(heap, env["b"])

\* m.precision
MPrecision == heap.mats[env["m"]].precision

\* the i-th Matrix of the last outcome, read now
ResV(i) == Value(heap, res.ref[i])

-----------------------------------------------------------------------------
(* Properties *)

\* C1: when lu() returns [L, U] for a square matrix A, the sum over k of
\* L[i][k] * U[k][j] equals A[i][j] for all i, j.
C1_LUReproducesInput ==
    (res.op = "lu" /\ res.err = "") =>
        \A i \in 1..Len(MV) : \A j \in 1..Len(MV) :
            StrictEq(SumProd(ResV(1), ResV(2), i, j, Len(MV)), MV[i][j])

\* C1 witness: a 3 x 3 decomposition with multipliers below the diagonal of L
\* and eliminated entries in U
C1_Witness ==
    /\ res.op = "lu" /\ res.err = ""
    /\ Len(MV) = 3
    /\ ~IsZero(ResV(1)[2][1]) /\ ~IsZero(ResV(1)[3][2])
    /\ ResV(2)[3][3] # MV[3][3] /\ ~IsZero(ResV(2)[2][3])

\* C2: lu() fails with the row exchange error exactly when elimination without
\* row exchanges meets a pivot of absolute value below 1e-6; a failed call
\* returns no pair, a successful one returns the pair.
C2_FailsExactlyOnSmallPivot ==
    res.op = "lu" =>
        /\ (res.err = "Cannot proceed without a row exchange") <=> SmallPivot(MV)
        /\ res.err \in {"", "Cannot proceed without a row exchange"}
        /\ res.err # "" => res.ref = <<>>
        /\ res.err = "" => Len(res.ref) = 2

\* C2 witness: a failure at the second pivot on a nonzero pivot below the
\* tolerance, on a matrix that a row exchange would have decomposed
C2_Witness ==
    /\ res.op = "lu" /\ res.err = "Cannot proceed without a row exchange"
    /\ Len(MV) = 2
    /\ ~BelowTolerance(MV[1][1])
    /\ ~IsZero(Pivot(MV, 2))
    /\ ~IsZero(MV[2][1])

\* what is read through the caller's matrix n in heap h, when n is bound in e
Reads(h, e, n) == IF n \in DOMAIN e THEN <<Value(h, e[n])>> ELSE <<>>

\* C4: a matrix made by Matrix.of(arr) reads, at every moment and after every
\* write through arr or through the matrix, exactly what arr reads; and a
\* reference made by Matrix.of(M) reads exactly what M reads.
C4_OfAliasesItsInput ==
    /\ "m" \in DOMAIN env => Value(heap, env["m"]) = Content(heap, arr)
    /\ "w" \in DOMAIN env => Value(heap, env["w"]) = Value(heap, env["m"])

\* C4 witness: after two writes, the last one through Matrix.of(M), arr and
\* the matrix both read the written value in two cells
C4_Witness ==
    /\ {"m", "w"} \subseteq DOMAIN env
    /\ writes = 2 /\ res.op = "write" /\ res.on = "w"
    /\ Cardinality({<<i, j>> \in (1..AliasDim) \X (1..AliasDim) :
            /\ i <= Len(Content(heap, arr)) /\ j <= Len(Content(heap, arr)[i])
            /\ Cell(heap, arr, i, j) = Written
            /\ Value(heap, env["m"])[i][j] = Written}) = 2

\* the entries and shape read through arr and through every matrix of ns are
\* the same before and after the step
KeptBy(ns) ==
    /\ Content(heap', arr') = Content(heap, arr)
    /\ \A n \in ns : Reads(heap', env', n) = Reads(heap, env, n)

\* C5: clone() and Matrix.fromArray(arr) return a matrix that reads what the
\* source reads at the call; a write to a copy's entry or row changes neither
\* the source nor the other copy, and a write to the source changes no copy.
C5_Step ==
    /\ res'.op = "clone" => Value(heap', env'["c"]) = Value(heap, env["m"]) /\ KeptBy({"m", "w", "w2", "f"})
    /\ res'.op = "fromArray" => Value(heap', env'["f"]) = Content(heap, arr) /\ KeptBy({"m", "w", "w2", "c"})
    /\ (res'.op \in {"write", "writeRow"} /\ res'.on = "c") => KeptBy({"m", "w", "w2", "f"})
    /\ (res'.op \in {"write", "writeRow"} /\ res'.on = "f") => KeptBy({"m", "w", "w2", "c"})
    /\ (res'.op \in {"write", "writeRow"} /\ res'.on \in {"arr", "m", "w", "w2"}) =>
            /\ Reads(heap', env', "c") = Reads(heap, env, "c")
            /\ Reads(heap', env', "f") = Reads(heap, env, "f")

C5_CopiesAreIndependent == [][C5_Step]_vars

\* C5 witness: the clone reads a written value where arr does not, and arr
\* reads a written value where the fromArray copy does not
C5_Witness ==
    /\ {"m", "c", "f"} \subseteq DOMAIN env
    /\ \E i \in 1..Len(Content(heap, arr)) : \E j \in 1..Len(Content(heap, arr)[i]) :
            Value(heap, env["c"])[i][j] = Written /\ Cell(heap, arr, i, j) # Written
    /\ \E i \in 1..Len(Content(heap, arr)) : \E j \in 1..Len(Content(heap, arr)[i]) :
            Cell(heap, arr, i, j) = Written /\ Value(heap, env["f"])[i][j] # Written

\* C6: Matrix.of applied to a Matrix returns that very instance, at nesting
\* depth two and three; the instance wraps the array itself and no other
\* Matrix instance comes to exist.
C6_OfIsIdempotent ==
    /\ "m" \in DOMAIN env => heap.mats[env["m"]].value = arr
    /\ "w" \in DOMAIN env => env["w"] = env["m"]
    /\ "w2" \in DOMAIN env => env["w2"] = env["m"]
    /\ {"w", "w2"} \subseteq DOMAIN env => equals(Value(heap, env["w2"]), Value(heap, env["w"]))
    /\ Cardinality(DOMAIN heap.mats) = Cardinality(DOMAIN env \ {"w", "w2"})

\* C6 witness: Matrix.of(Matrix.of(Matrix.of(arr))) has just been bound
C6_Witness ==
    /\ {"m", "w", "w2"} \subseteq DOMAIN env
    /\ res.op = "of" /\ res.on = "w"

\* C3: a call to lu(), rref(), inverse(), solve(b), rank() or determinant()
\* on the caller's matrix, returning or throwing, leaves every entry, the row
\* count, the column count and the row arrays of the matrix as they were, and
\* so does every sequence of such calls.
C3_Step ==
    /\ Value(heap', env'["m"]) = Value(heap, env["m"])
    /\ getRows(heap', env'["m"]) = getRows(heap, env["m"])
    /\ getCols(heap', env'["m"]) = getCols(heap, env["m"])
    /\ Content(heap', arr') = Content(heap, arr)
    /\ heap'.outer[arr'] = heap.outer[arr]
    /\ heap'.mats[env'["m"]] = heap.mats[env["m"]]

C3_CallerMatrixUnchanged == [][C3_Step]_vars

\* C3 witness: rref() exchanged rows of its clone and returned a result that
\* differs from the caller's 3 x 3 matrix, a matrix on which lu() throws
C3_Witness ==
    /\ res.op = "rref" /\ res.err = ""
    /\ Len(MV) = 3 /\ Len(MV[1]) = 3
    /\ IsZero(MV[1][1]) /\ ~IsZero(MV[2][1])
    /\ ResV(1) # MV
    /\ SmallPivot(MV)

\* C7 as stated: for every matrix A, rows of length zero included,
\* A.transpose().transpose() equals A.
C7_TransposeTwiceIsIdentity ==
    res.op = "transpose2" => equals(ResV(1), MV)

\* C7 amended: A.transpose().transpose() equals A when A has no rows or has
\* rows of length one or more; when A has rows of length zero the result of
\* transposing twice has no rows.
C7_TransposeTwiceIsIdentityIfColumns ==
    res.op = "transpose2" =>
        /\ (Len(MV) = 0 \/ Len(MV[1]) >= 1) => equals(ResV(1), MV)
        /\ (Len(MV) >= 1 /\ Len(MV[1]) = 0) => ResV(1) = <<>>

\* C7 witness: a 2 x 3 matrix that is not the mirror image of itself has been
\* transposed twice
C7_Witness ==
    /\ res.op = "transpose2"
    /\ Len(MV) = 2 /\ Len(MV[1]) = 3
    /\ MV[1] # MV[2] /\ MV[1][1] # MV[1][3]
    /\ Len(ResV(1)) = 2

\* C8: for an m x n matrix A with m, n >= 1, A.transpose() has n rows of
\* length m and its entry [j][i] is A[i][j]; [[-1,2],[3,4],[-8,2]] gives
\* [[-1,3,-8],[2,4,2]].
C8_TransposeSwapsIndices ==
    (res.op = "transpose" /\ Len(MV) >= 1 /\ Len(MV[1]) >= 1) =>
        /\ Len(ResV(1)) = Len(MV[1])
        /\ \A j \in 1..Len(MV[1]) :
                /\ Len(ResV(1)[j]) = Len(MV)
                /\ \A i \in 1..Len(MV) : ResV(1)[j][i] = MV[i][j]
        /\ MV = TransposeExample =>
                ResV(1) = << <<Int2N(-1), Int2N(3), Int2N(-8)>>, <<Int2N(2), Int2N(4), Int2N(2)>> >>

\* C8 witness: the example of the documentation has been transposed
C8_Witness ==
    /\ res.op = "transpose"
    /\ MV = TransposeExample
    /\ ResV(1)[1] = <<Int2N(-1), Int2N(3), Int2N(-8)>>

\* C9 as stated: for A (m x n) and B (n x p), A.dot(B) is the m x p matrix
\* whose entry [i][j] is the sum over k of A[i][k] * B[k][j] rounded to
\* A.precision decimals, each term rounded before it is added and the sum not
\* rounded again; the example of the documentation gives [[58,64],[139,154]].
C9_DotSumsRoundedProducts ==
    res.op = "dot" =>
        /\ res.err = ""
        /\ Len(ResV(1)) = Len(MV)
        /\ \A i \in 1..Len(MV) :
                /\ Len(ResV(1)[i]) = Len(BV[1])
                /\ \A j \in 1..Len(BV[1]) :
                        ResV(1)[i][j] = SumRoundedProd(MV, BV, i, j, Len(BV), MPrecision)
        /\ (MV = DotExampleA /\ BV = DotExampleB) =>
                ResV(1) = << <<Int2N(58), Int2N(64)>>, <<Int2N(139), Int2N(154)>> >>

\* C9, what the code does: the statement holds for the factors none of whose
\* products A[i][k] * B[k][j] lies strictly between 0 and 1e-6 in absolute value.
C9_DotSumsRoundedProductsUnlessTiny ==
    (/\ res.op = "dot"
     /\ \A i \in 1..Len(MV) : \A k \in 1..Len(BV) : \A j \in 1..Len(BV[1]) :
            ~Tiny(Mul(MV[i][k], BV[k][j]))) =>
        /\ res.err = ""
        /\ Len(ResV(1)) = Len(MV)
        /\ \A i \in 1..Len(MV) :
                /\ Len(ResV(1)[i]) = Len(BV[1])
                /\ \A j \in 1..Len(BV[1]) :
                        ResV(1)[i][j] = SumRoundedProd(MV, BV, i, j, Len(BV), MPrecision)

\* C9 witness: [[-0.0005]].dot([[-0.0005]]) has returned [[NaN]]; the product
\* 0.00000025 rounded to four decimals is 0
C9_Witness ==
    /\ res.op = "dot" /\ res.err = ""
    /\ MV = << <<Frac(-1, 2000)>> >> /\ BV = << <<Frac(-1, 2000)>> >>
    /\ MPrecision = 4
    /\ SumRoundedProd(MV, BV, 1, 1, 1, MPrecision) = PosZero
    /\ IsNaN(ResV(1)[1][1])

IdV(n) == [i \in 1..n |-> [j \in 1..n |-> IF i = j THEN Int2N(1) ELSE PosZero]]

\* the caller's matrix inv, read now
InvV == Value(heap, env["inv"])

\* the numbers x and y differ by at most bound
Within(x, y, bound) == IsFinite(x) /\ IsFinite(y) /\ ~Lt(bound, Abs(Sub(x, y)))

\* X and Y have the same shape and are numerically equal entry by entry
SameNumbers(X, Y) ==
    /\ Len(X) = Len(Y)
    /\ \A i \in 1..Len(X) :
        /\ Len(X[i]) = Len(Y[i])
        /\ \A j \in 1..Len(X[i]) : StrictEq(X[i][j], Y[i][j])

\* the inverse has been bound, or multiplied with, for an invertible matrix
InverseOfInvertible == res.op \in {"inverse", "dotInverse"} /\ ~IsZero(Det(MV))

\* inv is the exact inverse: sum over k of A[i][k] * inv[k][j] is the identity's entry
IsRightInverse ==
    /\ Len(InvV) = Len(MV)
    /\ \A i \in 1..Len(MV) :
        /\ Len(InvV[i]) = Len(MV)
        /\ \A j \in 1..Len(MV) : StrictEq(SumProd(MV, InvV, i, j, Len(MV)), IdV(Len(MV))[i][j])

\* the last outcome is a matrix of A's size whose entries are within
\* n/2 * 10^-A.precision of the identity's, and equal to them where every
\* product A[i][k] * inv[k][j] is a multiple of 10^-A.precision
IdentityWithinRounding ==
    /\ res.err = ""
    /\ Len(ResV(1)) = Len(MV)
    /\ \A i \in 1..Len(MV) :
        /\ Len(ResV(1)[i]) = Len(MV)
        /\ \A j \in 1..Len(MV) :
            /\ Within(ResV(1)[i][j], IdV(Len(MV))[i][j], Frac(Len(MV), 2 * Pow10(MPrecision)))
            /\ (\A k \in 1..Len(MV) : Representable(Abs(Mul(MV[i][k], InvV[k][j])), MPrecision))
                    => StrictEq(ResV(1)[i][j], IdV(Len(MV))[i][j])

\* C11 as stated, read within rounding precision: for every invertible square
\* matrix A, A[0][0] = 0 included, A.dot(A.inverse()) is the identity matrix
\* of A's size, each entry to within the rounding of its n terms;
\* inverse([[1,1],[2,4]]) is [[2,-0.5],[-1,0.5]].
C11_DotInverseIsIdentity ==
    /\ InverseOfInvertible => IsRightInverse
    /\ (res.op = "dotInverse" /\ ~IsZero(Det(MV))) => IdentityWithinRounding
    /\ (res.op = "inverse" /\ MV = InverseExample) =>
            InvV = << <<Int2N(2), Frac(-1, 2)>>, <<Int2N(-1), Frac(1, 2)>> >>

\* C11, what the code does: the statement holds for the matrices none of whose
\* products A[i][k] * inverse[k][j] lies strictly between 0 and 1e-6 in
\* absolute value.
C11_DotInverseIsIdentityUnlessTiny ==
    /\ InverseOfInvertible => IsRightInverse
    /\ (/\ res.op = "dotInverse"
        /\ ~IsZero(Det(MV))
        /\ \A i, k, j \in 1..Len(MV) : ~Tiny(Mul(MV[i][k], InvV[k][j]))) => IdentityWithinRounding
    /\ (res.op = "inverse" /\ MV = InverseExample) =>
            InvV = << <<Int2N(2), Frac(-1, 2)>>, <<Int2N(-1), Frac(1, 2)>> >>

\* C11 witness: [[1, 1e-7], [0, 1]] has been multiplied by its inverse
\* [[1, -1e-7], [0, 1]] and the entry [0][1] of the product is NaN
C11_Witness ==
    /\ res.op = "dotInverse" /\ res.err = ""
    /\ MV = InverseTiny
    /\ InvV = << <<Int2N(1), Frac(-1, 10000000)>>, <<PosZero, Int2N(1)>> >>
    /\ IsNaN(ResV(1)[1][2])

\* the entries, the row arrays and the precision of the caller's matrices m
\* and b are the same before and after the step
OperandsKept ==
    /\ Value(heap', env'["m"]) = Value(heap, env["m"])
    /\ Value(heap', env'["b"]) = Value(heap, env["b"])
    /\ heap'.outer[heap'.mats[env'["m"]].value] = heap.outer[heap.mats[env["m"]].value]
    /\ heap'.outer[heap'.mats[env'["b"]].value] = heap.outer[heap.mats[env["b"]].value]
    /\ heap'.mats[env'["m"]] = heap.mats[env["m"]]
    /\ heap'.mats[env'["b"]] = heap.mats[env["b"]]

\* the matrix returned by the step
NewV == Value(heap', res'.ref[1])

C12_Step ==
    (res'.op = "concat" /\ Len(BV) = Len(MV)) =>
        /\ res'.err = ""
        /\ Len(NewV) = Len(MV)
        /\ \A i \in 1..Len(MV) :
            /\ Len(NewV[i]) = Len(MV[i]) + Len(BV[i])
            /\ \A j \in 1..Len(MV[i]) : NewV[i][j] = MV[i][j]
            /\ \A j \in 1..Len(BV[i]) : NewV[i][Len(MV[i]) + j] = BV[i][j]
        /\ OperandsKept
        /\ (MV = ConcatExampleA /\ BV = ConcatExampleB) =>
                NewV = << <<PosZero, Int2N(1), Int2N(1), Int2N(2), Int2N(2), Int2N(2)>>,
                          <<Int2N(2), Int2N(3), Int2N(4), Int2N(3), Int2N(3), Int2N(3)>> >>

\* C12: for A (m x n) and B (m x p), A.concat(B) has m rows of length n + p,
\* row i being row i of A followed by row i of B, and the call changes
\* neither A nor B.
C12_ConcatAppendsRows == [][C12_Step]_vars

\* C12 witness: a 2 x 2 matrix and a 2 x 1 matrix have been concatenated into
\* a 2 x 3 matrix, and the other order would have given another first row
C12_Witness ==
    /\ res.op = "concat" /\ res.err = ""
    /\ Len(MV) = 2 /\ Len(MV[1]) = 2
    /\ Len(BV) = 2 /\ Len(BV[1]) = 1
    /\ Len(ResV(1)) = 2 /\ Len(ResV(1)[1]) = 3
    /\ MV[1] \o BV[1] # BV[1] \o MV[1]

\* the number of rows and the length of the first row; no rows, no columns
ShapeOf(V) == <<Len(V), IF Len(V) = 0 THEN 0 ELSE Len(V[1])>>

\* the mismatch error of add, subtract and multiply
MismatchError(op) ==
    CASE op = "add" -> "Matrices do not match, cannot add"
      [] op = "subtract" -> "Matrices do not match, cannot subtract"
      [] op = "multiply" -> "Matrices do not match, cannot create hadamard product"

\* C13 as stated: add(M), subtract(M) and multiply(M) with a Matrix M whose
\* row count or column count differs from the receiver's fail with the
\* 'Matrices do not match' error of the operation and return no matrix; with
\* equal shapes they do not fail.
C13_MismatchFails ==
    res.op \in {"add", "subtract", "multiply"} =>
        IF ShapeOf(MV) # ShapeOf(BV)
        THEN res.err = MismatchError(res.op) /\ res.ref = <<>>
        ELSE res.err = "" /\ Len(res.ref) = 1

\* C13 amended: the statement holds when the receiver and M both have at
\* least one row; when either has no rows the call fails with a TypeError,
\* whatever the shapes, and returns no matrix.
C13_MismatchFailsIfRows ==
    res.op \in {"add", "subtract", "multiply"} =>
        IF Len(MV) = 0 \/ Len(BV) = 0
        THEN res.err = "TypeError" /\ res.ref = <<>>
        ELSE IF ShapeOf(MV) # ShapeOf(BV)
        THEN res.err = MismatchError(res.op) /\ res.ref = <<>>
        ELSE res.err = "" /\ Len(res.ref) = 1

\* C13 witness: multiply(M) has failed on a 2 x 2 receiver and a 1 x 2 matrix,
\* which differ in the row count only
C13_Witness ==
    /\ res.op = "multiply"
    /\ ShapeOf(MV) = <<2, 2>> /\ ShapeOf(BV) = <<1, 2>>
    /\ res.err = "Matrices do not match, cannot create hadamard product"
    /\ res.ref = <<>>

\* x + y, x - y or x * y, by the name of the call
Combine(op, x, y) ==
    CASE op \in {"add", "addNumber"} -> Add(x, y)
      [] op \in {"subtract", "subtractNumber"} -> Sub(x, y)
      [] op \in {"multiply", "multiplyNumber"} -> Mul(x, y)

\* the matrix returned by the step is a Matrix the caller did not hold, over
\* an array and row arrays that neither m nor b uses
ReturnedIsNew ==
    /\ Len(res'.ref) = 1
    /\ res'.ref[1] \notin Range(env)
    /\ heap'.mats[res'.ref[1]].value \notin {heap.mats[env["m"]].value, heap.mats[env["b"]].value}
    /\ Range(heap'.outer[heap'.mats[res'.ref[1]].value])
            \cap (Range(heap.outer[heap.mats[env["m"]].value])
                    \cup Range(heap.outer[heap.mats[env["b"]].value])) = {}

C14_Step ==
    /\ (/\ res'.op \in {"add", "subtract", "multiply"}
        /\ Len(MV) >= 1
        /\ ShapeOf(MV) = ShapeOf(BV)) =>
            /\ res'.err = ""
            /\ ReturnedIsNew
            /\ Len(NewV) = Len(MV)
            /\ \A i \in 1..Len(MV) :
                /\ Len(NewV[i]) = Len(MV[i])
                /\ \A j \in 1..Len(MV[i]) : NewV[i][j] = Combine(res'.op, MV[i][j], BV[i][j])
            /\ OperandsKept
    /\ res'.op \in {"addNumber", "subtractNumber", "multiplyNumber"} =>
            /\ res'.err = ""
            /\ ReturnedIsNew
            /\ Len(NewV) = Len(MV)
            /\ \A i \in 1..Len(MV) :
                /\ Len(NewV[i]) = Len(MV[i])
                /\ \A j \in 1..Len(MV[i]) : NewV[i][j] = Combine(res'.op, MV[i][j], num)
            /\ OperandsKept
    /\ (res'.op = "subtractNumber" /\ MV = ArithExampleA /\ num = Int2N(1)) =>
            NewV = << <<Int2N(4), Int2N(3)>> >>

MinorAt(M, r, c) ==
    [i \in 1..(Len(M) - 1) |->
        [j \in 1..(Len(M) - 1) |-> M[IF i < r THEN i ELSE i + 1][IF j < c THEN j ELSE j + 1]]]

\* the inverse of an invertible square matrix: the transposed cofactors over the determinant
InverseOf(M) ==
    [i \in 1..Len(M) |->
        [j \in 1..Len(M) |->
            Div(IF (i + j) % 2 = 0 THEN Det(MinorAt(M, j, i)) ELSE Neg(Det(MinorAt(M, j, i))), Det(M))]]

\* X has the rows and columns of a square matrix
IsSquareV(X) == Len(X) >= 1 /\ Len(X[1]) = Len(X)

\* no product X[i][k] * Y[k][j] lies strictly between 0 and 1e-6 in absolute value
NoTinyProduct(X, Y) ==
    \A i \in 1..Len(X) : \A k \in 1..Len(Y) : \A j \in 1..Len(Y[1]) : ~Tiny(Mul(X[i][k], Y[k][j]))

\* divide(s) for a number s returns what multiply(1 / s) returns
DivideNumberIsMultiply ==
    res'.op = "divideNumber" =>
        /\ res'.err = ""
        /\ Len(NewV) = Len(MV)
        /\ \A i \in 1..Len(MV) :
            /\ Len(NewV[i]) = Len(MV[i])
            /\ \A j \in 1..Len(MV[i]) : NewV[i][j] = Mul(MV[i][j], Div(Int2N(1), num))
        /\ (MV = ArithExampleA /\ num = Int2N(2)) => NewV = << <<Frac(5, 2), Int2N(2)>> >>
        /\ OperandsKept

\* divide(M) fails on a Matrix M of another shape and on one that is not square
DivideMatrixFails ==
    (res'.op = "divide" /\ Len(MV) >= 1 /\ Len(BV) >= 1) =>
        /\ ShapeOf(MV) # ShapeOf(BV) =>
                res'.err = "Matrices do not match, cannot create division" /\ res'.ref = <<>>
        /\ (ShapeOf(MV) = ShapeOf(BV) /\ ~IsSquareV(BV)) =>
                res'.err = "Matrix is not square, cannot create inverse" /\ res'.ref = <<>>
        /\ (ShapeOf(MV) = ShapeOf(BV) /\ IsSquareV(BV)) => res'.err = "" /\ ReturnedIsNew
        /\ OperandsKept

\* the matrix returned by the step is this.dot(X): the sums of the rounded products
IsDotWith(X) ==
    /\ Len(NewV) = Len(MV)
    /\ \A i \in 1..Len(MV) :
        /\ Len(NewV[i]) = Len(X[1])
        /\ \A j \in 1..Len(X[1]) : NewV[i][j] = SumRoundedProd(MV, X, i, j, Len(X), MPrecision)

\* the matrix returned by the step is the identity of the receiver's size, each entry
\* to within the rounding of its terms
IsIdentityWithinRounding ==
    /\ Len(NewV) = Len(MV)
    /\ \A i \in 1..Len(MV) :
        /\ Len(NewV[i]) = Len(MV)
        /\ \A j \in 1..Len(MV) :
            Within(NewV[i][j], IdV(Len(MV))[i][j], Frac(Len(MV), 2 * Pow10(MPrecision)))

C15_StepAsStated ==
    /\ DivideNumberIsMultiply
    /\ DivideMatrixFails
    /\ (/\ res'.op = "divide"
        /\ ShapeOf(MV) = ShapeOf(BV) /\ IsSquareV(BV) /\ ~IsZero(Det(BV))) =>
            /\ IsDotWith(InverseOf(BV))
            /\ BV = MV => IsIdentityWithinRounding
            /\ (BV = InverseExample /\ MV = InverseExample) => NewV = IdV(2)

\* C15 as stated: divide(s) for a number s returns multiply(1/s); divide(M)
\* for a Matrix M fails when M's shape differs from the receiver's and when M
\* is not square, and otherwise returns this.dot(M.inverse()), so that
\* B.divide(B) is the identity (within rounding precision) for every
\* invertible B, [[1,1],[2,4]] included.
C15_Divide == [][C15_StepAsStated]_vars

C15_StepUnlessTiny ==
    /\ DivideNumberIsMultiply
    /\ DivideMatrixFails
    /\ (/\ res'.op = "divide"
        /\ ShapeOf(MV) = ShapeOf(BV) /\ IsSquareV(BV) /\ ~IsZero(Det(BV))
        /\ NoTinyProduct(MV, InverseOf(BV))) =>
            /\ IsDotWith(InverseOf(BV))
            /\ BV = MV => IsIdentityWithinRounding
            /\ (BV = InverseExample /\ MV = InverseExample) => NewV = IdV(2)

\* C15, what the code does: the statement holds for the operands none of
\* whose products this[i][k] * inverse(M)[k][j] lies strictly between 0 and
\* 1e-6 in absolute value.
C15_DivideUnlessTiny == [][C15_StepUnlessTiny]_vars

\* C15 witness: B.divide(B) for the invertible B = [[1, 0.0001], [0, 200]] has
\* returned a matrix with the entry NaN at [0][1]
C15_Witness ==
    /\ res.op = "divide" /\ res.err = ""
    /\ MV = DivideTiny /\ BV = DivideTiny
    /\ ~IsZero(Det(BV))
    /\ SameNumbers(InverseOf(BV), << <<Int2N(1), Frac(-1, 2000000)>>, <<PosZero, Frac(1, 200)>> >>)
    /\ IsNaN(ResV(1)[1][2])

\* the product of the diagonal entries of a square matrix X
RECURSIVE DiagProductOf(_, _)
DiagProductOf(X, k) == IF k = 0 THEN Int2N(1) ELSE Mul(DiagProductOf(X, k - 1), X[k][k])

\* determinant() has just been called on a square matrix
DeterminantOfSquare == res'.op = "determinant" /\ IsSquareV(MV)

\* the value returned by the step
NewVal == res'.val[1]

\* C16 as stated: determinant() of a square matrix returns its determinant,
\* equal to the Leibniz determinant for every size; determinant([[1,1],[2,4]])
\* is 2.
C16_StepAsStated ==
    DeterminantOfSquare =>
        /\ res'.err = ""
        /\ Len(res'.val) = 1
        /\ StrictEq(NewVal, Det(MV))
        /\ MV = InverseExample => NewVal = Int2N(2)

C16_DeterminantIsDeterminant == [][C16_StepAsStated]_vars

C16_StepIfPivots ==
    DeterminantOfSquare =>
        IF Len(MV) = 2
        THEN /\ res'.err = ""
             /\ res'.val = <<Sub(Mul(MV[1][1], MV[2][2]), Mul(MV[1][2], MV[2][1]))>>
             /\ StrictEq(NewVal, Det(MV))
             /\ MV = InverseExample => NewVal = Int2N(2)
        ELSE IF SmallPivot(MV)
        THEN res'.err = "Cannot proceed without a row exchange" /\ res'.val = <<>>
        ELSE /\ res'.err = ""
             /\ Len(res'.val) = 1
             /\ StrictEq(NewVal, Det(MV))
             /\ (res.op = "lu" /\ res.err = "") =>
                    NewVal = Mul(DiagProductOf(ResV(1), Len(MV)), DiagProductOf(ResV(2), Len(MV)))

\* C16 amended: determinant() of a 2 x 2 matrix [[a,b],[c,d]] returns
\* a*d - b*c; for a square matrix of another size on which elimination without
\* row exchanges meets no pivot below 1e-6 in absolute value it returns the
\* product of L's diagonal times the product of U's diagonal from lu(), which
\* is the Leibniz determinant; on the other square matrices of another size,
\* every singular one included, it fails with lu()'s row exchange error.
C16_DeterminantIfPivots == [][C16_StepIfPivots]_vars

\* C16 witness: determinant() of a 3 x 3 matrix with entries off the diagonal
\* has returned -2, its determinant
C16_Witness ==
    /\ res.op = "determinant" /\ res.err = ""
    /\ Len(MV) = 3 /\ Len(MV[1]) = 3
    /\ ~IsZero(MV[1][2]) /\ ~IsZero(MV[2][1])
    /\ res.val = <<Int2N(-2)>>
    /\ Det(MV) = Int2N(-2)

\* C17: determinant() on a matrix with one row or more whose row count differs
\* from its column count fails with the 'needs to be a square Matrix' error
\* and returns nothing; the error is not the one lu() would have raised.
C17_NonSquareFails ==
    (res.op = "determinant" /\ Len(MV) >= 1 /\ Len(MV[1]) # Len(MV)) =>
        /\ res.err = "The Matrix needs to be a square Matrix to calculate the determinant"
        /\ res.val = <<>>
        /\ res.ref = <<>>

\* C17 witness: determinant() has failed on a 2 x 3 matrix whose entry [0][0]
\* is 0, on which lu() fails with the row exchange error
C17_Witness ==
    /\ res.op = "determinant"
    /\ Len(MV) = 2 /\ Len(MV[1]) = 3
    /\ IsZero(MV[1][1]) /\ ~IsZero(MV[2][1])
    /\ res.err = "The Matrix needs to be a square Matrix to calculate the determinant"
    /\ lu(heap, env["m"]).err = "Cannot proceed without a row exchange"

Min(a, b) == IF a < b THEN a ELSE b

\* the strictly increasing sequences of k indices out of 1..n
Choices(n, k) == {c \in [1..k -> 1..n] : \A i \in 1..(k - 1) : c[i] < c[i + 1]}

\* the rank of a matrix with one row or more: the size of its largest square
\* submatrix with a determinant that is not zero
RankOf(X) ==
    LET sizes == {k \in 0..Min(Len(X), Len(X[1])) :
                    \E rs \in Choices(Len(X), k), cs \in Choices(Len(X[1]), k) :
                        ~IsZero(Det([i \in 1..k |-> [j \in 1..k |-> X[rs[i]][cs[j]]]]))}
    IN  CHOOSE k \in sizes : \A l \in sizes : l <= k

\* the first k columns of X
FirstColumns(X, k) == [i \in 1..Len(X) |-> [j \in 1..k |-> X[i][j]]]

\* the columns that hold the rank are the leading ones: elimination finds
\* every pivot on the diagonal
PivotsOnDiagonal(X) == RankOf(X) = 0 \/ RankOf(FirstColumns(X, RankOf(X))) = RankOf(X)

\* C18 as stated: rank() returns the rank of the matrix, the maximum number
\* of linearly independent columns, for every matrix with one row or more.
C18_RankIsRank ==
    (res.op = "rank" /\ Len(MV) >= 1) =>
        res.err = "" /\ res.val = <<Int2N(RankOf(MV))>>

\* C18, what the code does: on a matrix with more columns than rows rank()
\* fails with a TypeError; otherwise it returns a whole number from 0 up to
\* the rank, and the rank itself exactly when the leading columns hold the
\* rank.
C18_RankIfPivotsOnDiagonal ==
    (res.op = "rank" /\ Len(MV) >= 1) =>
        IF Len(MV) < Len(MV[1]) THEN res.err = "TypeError" /\ res.val = <<>>
        ELSE /\ res.err = ""
             /\ \E k \in 0..RankOf(MV) :
                    /\ res.val = <<Int2N(k)>>
                    /\ k = RankOf(MV) <=> PivotsOnDiagonal(MV)

\* C18 witness: rank() has returned 0 for [[0, 1], [0, 0]], whose rank is 1
C18_Witness ==
    /\ res.op = "rank" /\ res.err = ""
    /\ MV = << <<PosZero, Int2N(1)>>, <<PosZero, PosZero>> >>
    /\ RankOf(MV) = 1
    /\ res.val = <<PosZero>>

\* the sum of the first k diagonal entries of X
RECURSIVE DiagSum(_, _)
DiagSum(X, k) == IF k = 0 THEN PosZero ELSE Add(DiagSum(X, k - 1), X[k][k])

C19_StepAsStated ==
    (res'.op = "rank" /\ Len(MV) >= 1) =>
        /\ res'.err = ""
        /\ res.op = "rref" =>
               res'.val = <<DiagSum(ResV(1), Min(Len(MV), Len(MV[1])))>>

\* C19 as stated: on every matrix with one row or more, tall, square or wide,
\* rank() completes, and its result is the sum of the diagonal entries of the
\* matrix rref() returns, over the first min(rows, cols) positions.
C19_RankIsDiagonalSum == [][C19_StepAsStated]_vars

C19_StepIfNotWide ==
    (res'.op = "rank" /\ Len(MV) >= 1) =>
        IF Len(MV) < Len(MV[1]) THEN res'.err = "TypeError" /\ res'.val = <<>>
        ELSE /\ res'.err = ""
             /\ res.op = "rref" =>
                    res'.val = <<DiagSum(ResV(1), Min(Len(MV), Len(MV[1])))>>

\* C19, what the code does: on a matrix with no more columns than rows
\* rank() completes with the sum of the diagonal entries of the matrix rref()
\* returns; on a matrix with more columns than rows it fails with a
\* TypeError.
C19_RankIsDiagonalSumIfNotWide == [][C19_StepIfNotWide]_vars

\* C19 witness: rank() has failed with a TypeError on the wide matrix [[1, 0]]
C19_Witness ==
    /\ res.op = "rank" /\ res.err = "TypeError"
    /\ MV = << <<Int2N(1), PosZero>> >>

\* the column of the first entry of a row that is not zero, 0 for a row of zeros
LeadOf(row) ==
    IF \A j \in 1..Len(row) : IsZero(row[j]) THEN 0
    ELSE CHOOSE j \in 1..Len(row) :
            ~IsZero(row[j]) /\ \A l \in 1..(j - 1) : IsZero(row[l])

\* X is in row reduced echelon form
IsReduced(X) ==
    /\ \A i \in 1..Len(X) :
           LeadOf(X[i]) # 0 =>
               /\ X[i][LeadOf(X[i])] = Int2N(1)
               /\ \A k \in 1..Len(X) : k # i => IsZero(X[k][LeadOf(X[i])])
    /\ \A i \in 1..(Len(X) - 1) :
           LeadOf(X[i + 1]) # 0 =>
               LeadOf(X[i]) # 0 /\ LeadOf(X[i]) < LeadOf(X[i + 1])

SameShape(X, Y) ==
    Len(X) = Len(Y) /\ \A i \in 1..Len(X) : Len(X[i]) = Len(Y[i])

\* X and Y span the same rows: stacking one on the other adds nothing to the
\* rank of either
SameRowSpace(X, Y) ==
    /\ RankOf(X) = RankOf(Y)
    /\ RankOf(X \o Y) = RankOf(X)

\* C20: for every matrix A with one row and one column or more, A.rref()
\* returns a matrix in row reduced echelon form (each leading entry is 1 and
\* alone in its column, leading columns increase strictly, rows of zeros are
\* last) with the shape and the row space of A.
C20_RrefIsReducedForm ==
    (res.op = "rref" /\ Len(MV) >= 1) =>
        /\ res.err = "" /\ Len(res.ref) = 1
        /\ IsReduced(ResV(1))
        /\ SameShape(ResV(1), MV)
        /\ SameRowSpace(ResV(1), MV)

\* C20 witness: rref() of [[0, 1, 1], [1, 1, 0], [1, 0, -1]], which takes a
\* row exchange, elimination above and below the pivot and ends with a row of
\* zeros, has returned [[1, 0, -1], [0, 1, 1], [0, 0, 0]]
C20_Witness ==
    /\ res.op = "rref" /\ res.err = ""
    /\ MV = << <<PosZero, Int2N(1), Int2N(1)>>,
               <<Int2N(1), Int2N(1), PosZero>>,
               <<Int2N(1), PosZero, Int2N(-1)>> >>
    /\ SameNumbers(ResV(1), << <<Int2N(1), PosZero, Int2N(-1)>>,
                               <<PosZero, Int2N(1), Int2N(1)>>,
                               <<PosZero, PosZero, PosZero>> >>)

\* row i of X times the column vector x, over the first k columns
RECURSIVE RowTimes(_, _, _, _)
RowTimes(X, x, i, k) ==
    IF k = 0 THEN PosZero ELSE Add(RowTimes(X, x, i, k - 1), Mul(X[i][k], x[k]))

\* X times the column vector x
TimesVector(X, x) == [i \in 1..Len(X) |-> RowTimes(X, x, i, Len(x))]

\* the plain arrays of numbers x and y are numerically equal
SameVector(x, y) ==
    Len(x) = Len(y) /\ \A i \in 1..Len(x) : StrictEq(x[i], y[i])

\* x is what the substitutions give for L, U and b: with c = U x,
\* c[k] = b[k] - sum_{j<k} L[k][j] * c[j], and U[a][a] is not zero
IsSubstitution(L, U, b, x) ==
    LET c == TimesVector(U, x)
    IN  /\ \A a \in 1..Len(x) : ~IsZero(U[a][a])
        /\ \A k \in 1..Len(x) : StrictEq(c[k], Sub(b[k], RowTimes(L, c, k, k - 1)))

C21_Step ==
    (res'.op = "solve" /\ IsSquareV(MV)) =>
        /\ res'.ref = <<>>
        /\ res'.err = "" <=> ~SmallPivot(MV)
        /\ res'.err = "" =>
            /\ Len(res'.val) = Len(MV)
            /\ SameVector(TimesVector(MV, res'.val), num)
            /\ (res.op = "lu" /\ res.err = "") => IsSubstitution(ResV(1), ResV(2), num, res'.val)
            /\ (MV = SolveExampleA /\ num = SolveExampleB) => res'.val = <<Int2N(2), Int2N(-3)>>

\* C21: for every square n x n matrix A on which lu() succeeds and every b of
\* length n, A.solve(b) returns a plain array x of n numbers, no Matrix, with
\* A x = b, the x of forward substitution with L followed by back
\* substitution with U; solve([[5,1],[3,-4]], [7,18]) is [2,-3].
C21_SolveSolves == [][C21_Step]_vars

\* C21 witness: solve has returned [2, -3] for the documentation example
C21_Witness ==
    /\ res.op = "solve" /\ res.err = ""
    /\ MV = SolveExampleA /\ num = SolveExampleB
    /\ res.val = <<Int2N(2), Int2N(-3)>>

\* X has the given number of rows, each of the given length, with 1 where the
\* row index equals the column index and +0 elsewhere
IsIdentityOfShape(X, rows, cols) ==
    /\ Len(X) = rows
    /\ \A i \in 1..rows :
        /\ Len(X[i]) = cols
        /\ \A j \in 1..cols : X[i][j] = (IF i = j THEN Int2N(1) ELSE PosZero)

C22_Step ==
    /\ \A rows \in 0..MaxDim : \A cols \in 0..MaxDim :
           StaticIdentity(rows, cols) =>
               /\ res'.err = "" /\ Len(res'.ref) = 1
               /\ IsIdentityOfShape(NewV, rows, cols)
    /\ res'.op = "identity" =>
           /\ res'.err = "" /\ Len(res'.ref) = 1
           /\ Len(NewV) = Len(MV)
           /\ \A i \in 1..Len(MV) : \A j \in 1..Len(MV[i]) :
                  /\ Len(NewV[i]) = Len(MV[i])
                  /\ NewV[i][j] = (IF i = j THEN Int2N(1) ELSE PosZero)

NormalMatrix(X) ==
    [i \in 1..Len(X[1]) |-> [j \in 1..Len(X[1]) |->
        SumProd([a \in 1..Len(X[1]) |-> [k \in 1..Len(X) |-> X[k][a]]], X, i, j, Len(X))]]

\* the column Y as a plain array of numbers
ColumnOf(Y) == [k \in 1..Len(Y) |-> Y[k][1]]

\* the right-hand side of the normal equations: the transpose of X times the column y
NormalRhs(X, y) ==
    TimesVector([a \in 1..Len(X[1]) |-> [k \in 1..Len(X) |-> X[k][a]]], y)

\* C23 as stated: when the normal equations are solvable by LU without row
\* exchanges, A.lsq(b) completes without error and returns x, P and E, where
\* x solves (At A) x = At b, P = A x and E = b - P.
C23_LsqReturnsTriple ==
    (res.op = "lsq" /\ ~SmallPivot(NormalMatrix(MV))) =>
        /\ res.err = ""
        /\ Len(res.ref) = 2
        /\ SameVector(TimesVector(NormalMatrix(MV), res.val), NormalRhs(MV, ColumnOf(BV)))
        /\ \A k \in 1..Len(MV) :
            /\ Within(ResV(1)[k][1], TimesVector(MV, res.val)[k], Frac(1, 1000))
            /\ StrictEq(ResV(2)[k][1], Sub(BV[k][1], ResV(1)[k][1]))

\* C23, what the code does: lsq(b) never completes.  It fails with the row
\* exchange error of lu() when elimination on At A meets a small pivot, and
\* with a TypeError otherwise, and returns nothing.
C23_LsqFails ==
    res.op = "lsq" =>
        /\ res.ref = <<>> /\ res.val = <<>>
        /\ res.err = (IF SmallPivot(NormalMatrix(MV)) THEN RowExchange ELSE TypeError)

\* C23 witness: lsq has failed with a TypeError for A = [[1, 0], [0, 1]] and
\* b = [[2], [-1]], whose normal equations are x = b
C23_Witness ==
    /\ res.op = "lsq" /\ res.err = TypeError
    /\ MV = << <<Int2N(1), PosZero>>, <<PosZero, Int2N(1)>> >>
    /\ BV = << <<Int2N(2)>>, <<Int2N(-1)>> >>
    /\ ~SmallPivot(NormalMatrix(MV))

\* the precision of the i-th Matrix of the last outcome
ResPrecision(i) == heap.mats[res.ref[i]].precision

\* C24 as stated: for every matrix M and every precision p set by
\* M.setPrecision(p), M.clone().precision is p and the entries of the clone
\* equal M's.
C24_ClonePreservesPrecision ==
    res.op \in {"clone", "libClone"} =>
        /\ ResPrecision(1) = MPrecision
        /\ equals(ResV(1), MV)

\* C24, what the code does: clone() of the source returns a Matrix with the
\* precision and the entries of M; clone() of the built library returns a
\* Matrix with the entries of M and the default precision 4.
C24_SourceClonePreservesPrecision ==
    /\ res.op = "clone" => ResPrecision(1) = MPrecision /\ equals(ResV(1), MV)
    /\ res.op = "libClone" => ResPrecision(1) = DefaultPrecision /\ equals(ResV(1), MV)

\* C24 witness: the built library's clone() of a 2 x 2 matrix set to
\* precision 2 has returned a Matrix of precision 4
C24_Witness ==
    /\ res.op = "libClone"
    /\ Len(MV) = 2 /\ Len(MV[1]) = 2
    /\ MPrecision = OtherPrecision
    /\ ResPrecision(1) = DefaultPrecision

\* the positions of a call of rref() that has begun and not returned
Running == {"for", "while", "swap", "scale", "rows", "eliminate"}

\* the row and column indices the step at each position reads or writes
RowsRead ==
    IF frame.pc \in {"while", "swap"} THEN {frame.i, frame.r}
    ELSE IF frame.pc = "scale" /\ frame.j <= Len(MV[1]) THEN {frame.r}
    ELSE IF frame.pc = "rows" /\ frame.k <= Len(MV) THEN {frame.k}
    ELSE IF frame.pc = "eliminate" /\ frame.j <= Len(MV[1]) THEN {frame.k, frame.r}
    ELSE {}

ColsRead ==
    IF frame.pc \in {"while", "swap", "rows"} THEN {frame.lead}
    ELSE IF frame.pc \in {"scale", "eliminate"} /\ frame.j <= Len(MV[1]) THEN {frame.j, frame.lead}
    ELSE {}

\* the indices about to be read are rows and columns of the matrix, which keeps
\* the shape of the receiver
C25_ReadsInBounds ==
    frame.pc \in Running =>
        /\ RowsRead \subseteq 1..Len(MV)
        /\ frame.pc \in {"for"} \/ ColsRead \subseteq 1..Len(MV[1])
        /\ Len(heap.outer[FrameRows]) = Len(MV)
        /\ \A k \in 1..Len(MV) : Len(Content(heap, FrameRows)[k]) = Len(MV[1])

\* lead never decreases, and a search step that finds a zero moves on: to the
\* next row, or back to row r in the next column
C25_Progress ==
    (frame.pc \in Running /\ frame'.pc \in Running) =>
        /\ frame'.lead >= frame.lead
        /\ frame'.r >= frame.r
        /\ (frame.pc = "while" /\ frame'.pc = "while") =>
               \/ frame'.lead = frame.lead /\ frame'.i = frame.i + 1
               \/ frame'.lead = frame.lead + 1 /\ frame'.i = frame.r /\ frame.i = Len(MV)

\* C25: rref() terminates on every matrix with one row or more.  The pivot
\* search finds a nonzero entry or advances lead until lead = cols and
\* returns; lead only increases; no step reads a row index >= rows or a column
\* index >= cols; the call returns a matrix and throws nothing.
C25_RrefTerminates ==
    /\ []C25_ReadsInBounds
    /\ [][C25_Progress]_vars
    /\ [](res.op = "rref" => res.err = "" /\ Len(res.ref) = 1)
    /\ (frame.pc = "for") ~> (frame.pc = "done")

\* C25 witness: the search on [[0, 0, 1], [0, 0, 0]] has passed two columns of
\* zeros and stands at row 0 of the last column
C25_Witness ==
    /\ frame.pc = "while"
    /\ MV = << <<PosZero, PosZero, Int2N(1)>>, <<PosZero, PosZero, PosZero>> >>
    /\ frame.r = 1 /\ frame.i = 1 /\ frame.lead = 3

\* the operations that can fail
Failing == {"add", "subtract", "multiply", "divide", "lu", "solve", "determinant"}

C26_Step ==
    (res'.op \in Failing /\ res'.err # "") =>
        /\ res'.ref = <<>>
        /\ res'.val = <<>>
        /\ OperandsKept
        /\ arr' = arr /\ Content(heap', arr') = Content(heap, arr)

\* C26: when add, subtract, multiply, divide, lu, solve or determinant fails
\* with an error, the call produces no result, and the entries, the shape and
\* the precision of the receiver and of the argument matrix are what they
\* were before the call.
C26_FailureChangesNothing == [][C26_Step]_vars

\* C26 witness: lu() has failed at the second pivot of [[1, 1], [1, 1]], after
\* the first elimination step had written into its working copy
C26_Witness ==
    /\ res.op = "lu" /\ res.err = RowExchange /\ res.ref = <<>>
    /\ MV = << <<Int2N(1), Int2N(1)>>, <<Int2N(1), Int2N(1)>> >>

\* the precision of Matrix object k
PrecisionOf(h, k) == h.mats[k].precision

\* the step is the call n.<op>() and the call returns: of the steps of
\* SpecPrecision, the calls alone leave the names and the Matrix objects behind
\* them as they were
Calls(n, op) ==
    /\ res'.op = op /\ res'.on = n /\ res'.err = ""
    /\ env' = env
    /\ \A k \in Range(env) : heap'.mats[k] = heap.mats[k]

\* every Matrix returned by the step has precision p
ReturnedWith(p) == \A i \in 1..Len(res'.ref) : PrecisionOf(heap', res'.ref[i]) = p

\* n.setPrecision(p) sets the precision of the object behind n, through
\* whatever name, and of no other Matrix object
SetsOneInstance ==
    \A n \in DOMAIN env, p \in SetPrecisions :
        SetPrecisionOf(n, p) =>
            /\ \A k \in DOMAIN heap.mats :
                  PrecisionOf(heap', k) = IF k = env[n] THEN p ELSE PrecisionOf(heap, k)
            /\ "a" \in DOMAIN env => env["a"] = env["m"]

C27_StepAsStated ==
    /\ \A n \in {"m", "c"}, op \in Operations :
          Calls(n, op) =>
              ReturnedWith(IF op = "clone" THEN PrecisionOf(heap, env[n]) ELSE DefaultPrecision)
    /\ SetsOneInstance

\* C27 as stated: every Matrix returned by map, concat, dot, transpose, add,
\* subtract, multiply, zeros, ones, identity, rref, inverse or lu has the
\* default precision 4 whatever the receiver's precision is, clone alone
\* carries the receiver's precision over, and setPrecision on one instance
\* changes no other instance, Matrix.of(M) being M itself.
C27_ResultsHaveDefaultPrecision == [][C27_StepAsStated]_vars

C27_StepRrefCarries ==
    /\ \A n \in {"m", "c"}, op \in Operations :
          Calls(n, op) =>
              ReturnedWith(IF op \in {"clone", "rref"} THEN PrecisionOf(heap, env[n])
                           ELSE DefaultPrecision)
    /\ SetsOneInstance

\* C27 amended: the statement holds with rref moved to the side of clone.
\* rref() returns the clone it worked on, so its result has the receiver's
\* precision; the results of the twelve other operations have precision 4.
C27_ResultsHaveDefaultPrecisionButRref == [][C27_StepRrefCarries]_vars

\* C27 witness: after m.setPrecision(2), ones() has returned a Matrix with
\* precision 4 while the clone c of m, taken before, still has precision 4
\* and the alias a of m has precision 2
C27_Witness ==
    /\ res.op = "ones" /\ res.on = "m" /\ res.err = ""
    /\ {"a", "c"} \subseteq DOMAIN env
    /\ PrecisionOf(heap, env["m"]) = OtherPrecision
    /\ PrecisionOf(heap, env["a"]) = OtherPrecision
    /\ PrecisionOf(heap, env["c"]) = DefaultPrecision
    /\ PrecisionOf(heap, res.ref[1]) = DefaultPrecision

\* C28: whenever lu() succeeds on a square n x n matrix, L is unit lower
\* triangular (L[k][k] = 1, L[i][j] = 0 for j > i), U is upper triangular
\* (U[i][j] = 0 for j < i) and every |U[k][k]| is at least 1e-6, so that no
\* U[a][a], by which solve divides, is zero.
C28_LuFactorsAreTriangular ==
    (res.op = "lu" /\ res.err = "") =>
        LET L == ResV(1)
            U == ResV(2)
            n == Len(MV)
        IN  /\ Len(L) = n /\ Len(U) = n
            /\ \A i \in 1..n :
                /\ Len(L[i]) = n /\ Len(U[i]) = n
                /\ L[i][i] = Int2N(1)
                /\ ~Lt(Abs(U[i][i]), tol) /\ IsFinite(U[i][i]) /\ ~IsZero(U[i][i])
                /\ \A j \in 1..n :
                    /\ j > i => IsZero(L[i][j])
                    /\ j < i => IsZero(U[i][j])

\* C28 witness: a 2 x 2 decomposition whose second pivot is exactly 1e-6, with
\* a multiplier below the diagonal of L and an entry above the diagonal of U
C28_Witness ==
    /\ res.op = "lu" /\ res.err = ""
    /\ Len(MV) = 2
    /\ ResV(2)[2][2] = tol
    /\ ~IsZero(ResV(1)[2][1]) /\ ~IsZero(ResV(2)[1][2])

\* C29: solve(b), and determinant() for sizes other than 2 x 2, fail with the
\* row exchange error on every square matrix on which lu() fails, that is
\* when elimination without row exchanges meets a pivot below 1e-6, nonsingular
\* matrices with a zero first pivot included; determinant() of a 2 x 2 matrix
\* never fails.
C29_FailWhereLuFails ==
    IsSquareV(MV) =>
        /\ res.op = "lu" => (res.err = RowExchange <=> SmallPivot(MV))
        /\ (res.op = "solve" /\ SmallPivot(MV)) =>
                res.err = RowExchange /\ res.val = <<>> /\ res.ref = <<>>
        /\ (res.op = "determinant" /\ Len(MV) # 2 /\ SmallPivot(MV)) =>
                res.err = RowExchange /\ res.val = <<>> /\ res.ref = <<>>
        /\ (res.op = "determinant" /\ Len(MV) = 2) =>
                res.err = "" /\ res.val = <<Sub(Mul(MV[1][1], MV[2][2]), Mul(MV[1][2], MV[2][1]))>>
        /\ (res.op = "solve" /\ MV = << <<PosZero, Int2N(1)>>, <<Int2N(1), PosZero>> >>) =>
                res.err = RowExchange /\ ~IsZero(Det(MV))

\* C29 witness: determinant() has failed with the row exchange error on a
\* 3 x 3 permutation matrix, whose determinant is -1
C29_Witness ==
    /\ res.op = "determinant" /\ res.err = RowExchange /\ res.val = <<>>
    /\ MV = << <<PosZero, Int2N(1), PosZero>>,
               <<Int2N(1), PosZero, PosZero>>,
               <<PosZero, PosZero, Int2N(1)>> >>
    /\ Det(MV) = Int2N(-1)

\* [[1, 2], [2, 4]], of determinant 0
SingularExample == << <<Int2N(1), Int2N(2)>>, <<Int2N(2), Int2N(4)>> >>

\* the inverse has been bound, or multiplied with, for a matrix of determinant 0
InverseOfSingular == res.op \in {"inverse", "dotInverse"} /\ IsZero(Det(MV))

\* C30: inverse() checks neither squareness nor singularity: on every square
\* matrix, the singular ones included (the zero matrix, [[1, 2], [2, 4]]), it
\* completes without an error and returns a matrix of the same shape, and for
\* a singular A the result is no inverse: A.dot(result) is not the identity.
C30_InverseOfSingularIsNoInverse ==
    /\ res.op \in {"inverse", "dotInverse"} =>
        /\ res.err = ""
        /\ Len(InvV) = Len(MV)
        /\ \A i \in 1..Len(MV) : Len(InvV[i]) = Len(MV[i])
    /\ InverseOfSingular =>
        /\ ~IsRightInverse
        /\ res.op = "dotInverse" =>
              Len(res.ref) = 1 /\ ~SameNumbers(ResV(1), IdV(Len(MV)))
        /\ (\A i \in 1..Len(MV) : \A j \in 1..Len(MV) : IsZero(MV[i][j])) =>
              SameNumbers(InvV, IdV(Len(MV)))
        /\ MV = SingularExample =>
              SameNumbers(InvV, << <<PosZero, Frac(1, 2)>>, <<Int2N(1), Frac(-1, 2)>> >>)

\* C30 witness: [[1, 2], [2, 4]].inverse() has returned [[0, 0.5], [1, -0.5]]
\* and the product of the two is [[2, -0.5], [4, -1]]
C30_Witness ==
    /\ res.op = "dotInverse" /\ res.err = ""
    /\ MV = SingularExample
    /\ SameNumbers(ResV(1), << <<Int2N(2), Frac(-1, 2)>>, <<Int2N(4), Int2N(-1)>> >>)

=============================================================================
